---- MODULE Spec2Model ----
(***************************************************************************)
(* Model of droneforge-ai: DroneControls (control channel engine and script *)
(* timeline engine), PhysicsEngine (flight dynamics mapper and velocity     *)
(* clamp) and the App that drives both once per animation frame.            *)
(*                                                                         *)
(* Numbers: every constant of the class (0.005, 0.2, 0.4, 0.5, 0.6125, 1)  *)
(* is a multiple of 0.0025 and the code only adds, subtracts and takes     *)
(* min/max, so channel and thrust values are kept as integers counting     *)
(* units of 0.0025: 1.0 is 400, the centering step 0.005 is 2.             *)
(* Time is in milliseconds, as performance.now() reports it.               *)
(***************************************************************************)
EXTENDS Integers, Sequences, FiniteSets, TLC

VARIABLES
    channels,        \* this.channels {roll, pitch, yaw, throttle}
    motorThrusts,    \* this.motorThrusts {motor1..motor4}
    keyStates,       \* this.keyStates: key code -> boolean, keys absent until first set
    connected,       \* this.gamepadHandler.connected as of the last update()
    axes,            \* this.gamepadHandler.getAxes() as of the last update()
    scripts,         \* this.scripts: script id -> action array
    scriptBindings,  \* this.scriptBindings: key code -> script id
    activeScripts,   \* this.activeScripts: array of script instances
    now,             \* the value performance.now() gave when it was last read
    reported,        \* what the last operation wrote to the console: none/log/warn/error
    raised,          \* whether the last operation ended by throwing
    log,             \* history: the script actions executed so far, in order
    nextUid,         \* history: number of instances started so far
    started,         \* history: the instances started so far, as they were when started
    nUpdates,        \* history: number of update() calls so far
    last,            \* history: the last operation and its arguments
    snapshot,        \* the object getControlInputs() returned last, as its caller holds it
    physicsEngine,   \* the fields of the PhysicsEngine
    app,             \* where App.init has got to
    world,           \* what the page provides: window.Ammo, scene.drone, pending timers
    tick             \* history: what the last animation frame did, in order

\* the state outside DroneControls
appVars == <<physicsEngine, app, world, tick>>

vars == <<channels, motorThrusts, keyStates, connected, axes, scripts, scriptBindings,
          activeScripts, now, reported, raised, log, nextUid, started, nUpdates, last,
          snapshot, physicsEngine, app, world, tick>>

-----------------------------------------------------------------------------
(* Bounds of the model *)

MaxUpdates == 4      \* update() calls in a run of SpecTimeline
MaxStarted == 2      \* script instances started in a run
MaxFrames == 3       \* update() calls in a run of Spec
MaxExtraUpdates == 2 \* update() calls of SpecIdle after the channels must have settled
MaxRunFrames == 5    \* update() calls in a run of SpecCompletion
MaxKeyFrames == 3    \* update() calls in a run of SpecKeys
MaxKeyStarts == 1    \* script instances started in a run of SpecKeys
MaxTicks == 3        \* animation frames in a run of SpecApp
MaxNestFrames == 4   \* update() calls in a run of SpecNested
MaxNestStarts == 3   \* instances started before the host starts no more in SpecNested
MaxFlightTicks == 2  \* animation frames in a run of SpecFlight

-----------------------------------------------------------------------------
(* Program constants, in units of 0.0025 *)

CenterRate == 2
One == 200 * CenterRate
controlRate == 80 * CenterRate
HoverThrust == 245
Half == One \div 2
YawSpinRate == 40 * CenterRate

ChannelNames == {"roll", "pitch", "yaw", "throttle"}
MotorNames == {"motor1", "motor2", "motor3", "motor4"}

\* Names every plain object inherits from Object.prototype: scripts[name] is
\* truthy for them although nothing was registered under the name.
ObjectPrototypeProps == {"constructor", "toString"}

-----------------------------------------------------------------------------
(* Values *)

Max(a, b) == IF a >= b THEN a ELSE b
Min(a, b) == IF a <= b THEN a ELSE b

EmptyMap == [x \in {} |-> TRUE]
Put(f, k, v) == [x \in (DOMAIN f) \cup {k} |-> IF x = k THEN v ELSE f[x]]

\* An entry of an action array handed to registerScript.
\*   kind: "object" (any object), "primitive" (a number, a string: property
\*         reads give undefined), "null" (null or undefined: property reads throw)
\*   timeIsNumber / time: typeof entry.time === 'number' and its value
\*   timeIsNaN: the number is NaN (time is then not read)
\*   actionIsFunction: typeof entry.action === 'function'
\*   op, target, value: what the callback does when called with the controls:
\*     "set"   controls.channels[target] = value, or controls.motorThrusts[target] = value
\*     "throw" the callback throws
\*     "exec"  controls.executeScript(target)
Entry(kind, isNum, t, isFn, op, target, value) ==
    [kind |-> kind, timeIsNumber |-> isNum, timeIsNaN |-> FALSE, time |-> t,
     actionIsFunction |-> isFn, op |-> op, target |-> target, value |-> value]

Action(t, op, target, value) == Entry("object", TRUE, t, TRUE, op, target, value)
SetAt(t, target, value) == Action(t, "set", target, value)
ThrowAt(t) == Action(t, "throw", "", 0)
ExecAt(t, id) == Action(t, "exec", id, 0)

\* { time: NaN, action: controls => { controls.channels[target] = value } }
SetAtNaN(target, value) == [SetAt(0, target, value) EXCEPT !.timeIsNaN = TRUE]

NullEntry == Entry("null", FALSE, 0, FALSE, "", "", 0)
PrimitiveEntry == Entry("primitive", FALSE, 0, FALSE, "", "", 0)
NoTimeEntry == Entry("object", FALSE, 0, TRUE, "set", "roll", 0)
NoFunctionEntry == Entry("object", TRUE, 0, FALSE, "", "", 0)

\* The second argument of registerScript: an array of entries, or something else.
ArrayOf(items) == [isArray |-> TRUE, items |-> items]
NotAnArray == [isArray |-> FALSE, items |-> <<>>]

HoverScript == << SetAt(0, "throttle", Half), SetAt(1000, "roll", 0),
                  SetAt(1000, "pitch", 0), SetAt(1000, "yaw", 0) >>
YawSpinScript == << SetAt(0, "yaw", YawSpinRate), SetAt(5000, "yaw", 0) >>

-----------------------------------------------------------------------------
(* Pure helpers of DroneControls *)

clampValue(value, min, max) == Max(min, Min(max, value))

\* (variant: the step taken without the Math.max / Math.min against the center)
moveTowardsCenterOvershoot(value) ==
    IF value > 0 THEN value - CenterRate ELSE value + CenterRate

moveTowardsCenter(value) ==
    IF value > 0 THEN Max(0, value - CenterRate) ELSE Min(0, value + CenterRate)

\* (variant: the throttle centred on its hover default instead of on 0)
moveTowardsHover(value) ==
    IF value > Half THEN Max(Half, value - CenterRate) ELSE Min(Half, value + CenterRate)

moveTowardsZero(value) == Max(0, value - CenterRate)

\* this.keyStates[k] read as a condition: undefined and false are both falsy
Pressed(ks, k) == k \in DOMAIN ks /\ ks[k]

\* this.scripts[id] read as a condition: an array is truthy, an inherited
\* property of the plain object is truthy, undefined is falsy
ScriptTruthy(tbl, id) == id \in DOMAIN tbl \/ id \in ObjectPrototypeProps

\* this.scriptBindings[key] read as a condition
Bound(tbl, key) == key \in DOMAIN tbl /\ tbl[key] # ""

centerUnusedControls(ch, ks) ==
    LET yaw == IF ~Pressed(ks, "KeyA") /\ ~Pressed(ks, "KeyD")
               THEN moveTowardsCenter(ch.yaw) ELSE ch.yaw
        pitch == IF ~Pressed(ks, "ArrowRight") /\ ~Pressed(ks, "ArrowLeft")
                 THEN moveTowardsCenter(ch.pitch) ELSE ch.pitch
        roll == IF ~Pressed(ks, "ArrowDown") /\ ~Pressed(ks, "ArrowUp")
                THEN moveTowardsCenter(ch.roll) ELSE ch.roll
        throttle == IF ~Pressed(ks, "KeyW") /\ ~Pressed(ks, "KeyX")
                    THEN moveTowardsZero(ch.throttle) ELSE ch.throttle
    IN [roll |-> roll, pitch |-> pitch, yaw |-> yaw, throttle |-> throttle]

\* (variant: a motor whose key is not held keeps its thrust)
motorStepHold(thrust, held) ==
    IF held THEN clampValue(thrust + controlRate, 0, One) ELSE thrust

motorStep(thrust, held) ==
    IF held THEN clampValue(thrust + controlRate, 0, One)
    ELSE clampValue(thrust - controlRate, 0, One)

\* (variant: the centering step taken on every axis, keyed or not)
updateKeyboardControlsAlwaysCentering(ch, mt, ks) ==
    LET yaw1 == IF Pressed(ks, "KeyA") THEN clampValue(ch.yaw - controlRate, -One, One) ELSE ch.yaw
        yaw2 == IF Pressed(ks, "KeyD") THEN clampValue(yaw1 + controlRate, -One, One) ELSE yaw1
        pitch1 == IF Pressed(ks, "ArrowRight") THEN clampValue(ch.pitch + controlRate, -One, One) ELSE ch.pitch
        pitch2 == IF Pressed(ks, "ArrowLeft") THEN clampValue(pitch1 - controlRate, -One, One) ELSE pitch1
        roll1 == IF Pressed(ks, "ArrowDown") THEN clampValue(ch.roll - controlRate, -One, One) ELSE ch.roll
        roll2 == IF Pressed(ks, "ArrowUp") THEN clampValue(roll1 + controlRate, -One, One) ELSE roll1
        thr1 == IF Pressed(ks, "KeyW") THEN clampValue(ch.throttle + controlRate, 0, One) ELSE ch.throttle
        thr2 == IF Pressed(ks, "KeyX") THEN clampValue(thr1 - controlRate, 0, One) ELSE thr1
        keyed == [roll |-> roll2, pitch |-> pitch2, yaw |-> yaw2, throttle |-> thr2]
    IN [ch |-> centerUnusedControls(keyed, EmptyMap),
        mt |-> [motor1 |-> motorStep(mt.motor1, Pressed(ks, "Digit1")),
                motor2 |-> motorStep(mt.motor2, Pressed(ks, "Digit2")),
                motor3 |-> motorStep(mt.motor3, Pressed(ks, "Digit3")),
                motor4 |-> motorStep(mt.motor4, Pressed(ks, "Digit4"))]]

updateKeyboardControls(ch, mt, ks) ==
    LET yaw1 == IF Pressed(ks, "KeyA") THEN clampValue(ch.yaw - controlRate, -One, One) ELSE ch.yaw
        yaw2 == IF Pressed(ks, "KeyD") THEN clampValue(yaw1 + controlRate, -One, One) ELSE yaw1
        pitch1 == IF Pressed(ks, "ArrowRight") THEN clampValue(ch.pitch + controlRate, -One, One) ELSE ch.pitch
        pitch2 == IF Pressed(ks, "ArrowLeft") THEN clampValue(pitch1 - controlRate, -One, One) ELSE pitch1
        roll1 == IF Pressed(ks, "ArrowDown") THEN clampValue(ch.roll - controlRate, -One, One) ELSE ch.roll
        roll2 == IF Pressed(ks, "ArrowUp") THEN clampValue(roll1 + controlRate, -One, One) ELSE roll1
        thr1 == IF Pressed(ks, "KeyW") THEN clampValue(ch.throttle + controlRate, 0, One) ELSE ch.throttle
        thr2 == IF Pressed(ks, "KeyX") THEN clampValue(thr1 - controlRate, 0, One) ELSE thr1
        keyed == [roll |-> roll2, pitch |-> pitch2, yaw |-> yaw2, throttle |-> thr2]
    IN [ch |-> centerUnusedControls(keyed, ks),
        mt |-> [motor1 |-> motorStep(mt.motor1, Pressed(ks, "Digit1")),
                motor2 |-> motorStep(mt.motor2, Pressed(ks, "Digit2")),
                motor3 |-> motorStep(mt.motor3, Pressed(ks, "Digit3")),
                motor4 |-> motorStep(mt.motor4, Pressed(ks, "Digit4"))]]

\* (variant: the keyboard path run in every update, the gamepad values
\* written before it when a gamepad is connected)
updateControlChannelsBoth(ch, mt, ks, conn, ax) ==
    IF conn
    THEN updateKeyboardControls([roll |-> clampValue(ax[1], -One, One),
                                 pitch |-> clampValue(ax[2], -One, One),
                                 yaw |-> clampValue(ax[3], -One, One),
                                 throttle |-> clampValue((ax[4] + One) \div 2, 0, One)],
                                mt, ks)
    ELSE updateKeyboardControls(ch, mt, ks)

\* (variant: the motor thrusts stepped in gamepad mode as in keyboard mode)
updateControlChannelsSteppingMotors(ch, mt, ks, conn, ax) ==
    IF conn
    THEN [ch |-> [roll |-> clampValue(ax[1], -One, One),
                  pitch |-> clampValue(ax[2], -One, One),
                  yaw |-> clampValue(ax[3], -One, One),
                  throttle |-> clampValue((ax[4] + One) \div 2, 0, One)],
          mt |-> updateKeyboardControls(ch, mt, ks).mt]
    ELSE updateKeyboardControls(ch, mt, ks)

updateControlChannels(ch, mt, ks, conn, ax) ==
    IF conn
    THEN [ch |-> [roll |-> clampValue(ax[1], -One, One),
                  pitch |-> clampValue(ax[2], -One, One),
                  yaw |-> clampValue(ax[3], -One, One),
                  throttle |-> clampValue((ax[4] + One) \div 2, 0, One)],
          mt |-> mt]
    ELSE updateKeyboardControls(ch, mt, ks)

\* (variant: the engine's own motorThrusts object handed out)
getControlInputsSharingMotors(ch, mt) ==
    [roll |-> ch.roll, pitch |-> ch.pitch, yaw |-> ch.yaw, throttle |-> ch.throttle,
     motorThrusts |-> mt, shared |-> TRUE]

\* getControlInputs(): a new object with the four channel values and a new
\* nested object with the four motor thrusts. shared tells whether the nested
\* object is the engine's own this.motorThrusts.
getControlInputs(ch, mt) ==
    [roll |-> ch.roll, pitch |-> ch.pitch, yaw |-> ch.yaw, throttle |-> ch.throttle,
     motorThrusts |-> [motor1 |-> mt.motor1, motor2 |-> mt.motor2,
                       motor3 |-> mt.motor3, motor4 |-> mt.motor4],
     shared |-> FALSE]

-----------------------------------------------------------------------------
(* Script timeline *)

\* (variant: the instance takes the actions ordered by their offsets, actions
\* with equal offsets in registration order)
NewInstanceSorted(tbl, id, t, uid) ==
    LET items == tbl[id]
        n == Len(items)
        p == CHOOSE f \in [1 .. n -> 1 .. n] :
                /\ \A i, j \in 1 .. n : i # j => f[i] # f[j]
                /\ \A i, j \in 1 .. n : i < j =>
                      \/ items[f[i]].time < items[f[j]].time
                      \/ (items[f[i]].time = items[f[j]].time /\ f[i] < f[j])
    IN [id |-> id, actions |-> [i \in 1 .. n |-> items[p[i]]], startTime |-> t,
        nextActionIndex |-> 0, uid |-> uid]

\* executeScript's new instance; uid is history only (the n-th instance started)
NewInstance(tbl, id, t, uid) ==
    [id |-> id, actions |-> tbl[id], startTime |-> t, nextActionIndex |-> 0, uid |-> uid]

\* action(this) of one entry, on the working state of an update:
\*   ch, mt    channels and motor thrusts
\*   arr       the array this.activeScripts refers to while filter runs
\*   fired     the actions executed in this update, in order
\*   errors    number of console.error calls of this update
callAction(e, inst, elapsed, w) ==
    LET throws == \/ e.op = "throw"
                  \/ (e.op = "exec" /\ e.target \notin DOMAIN w.tbl
                                    /\ e.target \in ObjectPrototypeProps)
        rec == [uid |-> inst.uid, id |-> inst.id, idx |-> inst.nextActionIndex,
                elapsed |-> elapsed, threw |-> throws]
        w1 == [w EXCEPT !.fired = Append(@, rec)]
    IN CASE throws -> [w1 EXCEPT !.errors = @ + 1]
         [] e.op = "set" /\ e.target \in ChannelNames ->
                [w1 EXCEPT !.ch = [@ EXCEPT ![e.target] = e.value]]
         [] e.op = "set" /\ e.target \in MotorNames ->
                [w1 EXCEPT !.mt = [@ EXCEPT ![e.target] = e.value]]
         [] e.op = "exec" /\ e.target \in DOMAIN w.tbl ->
                [w1 EXCEPT !.arr = Append(@, NewInstance(w.tbl, e.target, w.t, w.uid)),
                           !.uid = @ + 1]
         [] OTHER -> w1

\* (variant: the comparison written with > instead of >=)
DueStrict(elapsed, e) == elapsed > e.time

\* elapsedTime >= actions[nextActionIndex].time; a comparison with NaN is false
Due(elapsed, e) == ~e.timeIsNaN /\ elapsed >= e.time

\* the while loop of updateActiveScripts on one instance
RECURSIVE runDueActions(_, _, _)

\* (variant: the increment placed inside the try block, so that a failing
\* callback leaves the cursor where it is and ends the loop)
runDueActionsStopOnError(inst, elapsed, w) ==
    IF inst.nextActionIndex < Len(inst.actions)
       /\ Due(elapsed, inst.actions[inst.nextActionIndex + 1])
    THEN LET w2 == callAction(inst.actions[inst.nextActionIndex + 1], inst, elapsed, w)
         IN IF w2.errors > w.errors
            THEN [inst |-> inst, w |-> w2]
            ELSE runDueActions([inst EXCEPT !.nextActionIndex = @ + 1], elapsed, w2)
    ELSE [inst |-> inst, w |-> w]

runDueActions(inst, elapsed, w) ==
    IF inst.nextActionIndex < Len(inst.actions)
       /\ Due(elapsed, inst.actions[inst.nextActionIndex + 1])
    THEN runDueActions([inst EXCEPT !.nextActionIndex = @ + 1], elapsed,
                       callAction(inst.actions[inst.nextActionIndex + 1], inst, elapsed, w))
    ELSE [inst |-> inst, w |-> w]

\* (variant: an instance dropped once only its last action is left)
keepInstanceUntilLast(inst) == inst.nextActionIndex + 1 < Len(inst.actions)

\* the filter predicate's answer for an instance after its while loop
keepInstance(inst) == inst.nextActionIndex < Len(inst.actions)

\* Array.prototype.filter over the array as it was when filter was called:
\* elements 1..n are visited in order, elements pushed meanwhile are not
RECURSIVE filterActive(_, _, _, _, _)

\* (variant: the array walked from its end to its start)
filterActiveBackwards(list, i, currentTime, kept, w) ==
    IF i > Len(list) THEN [kept |-> kept, w |-> w]
    ELSE LET inst == list[Len(list) + 1 - i]
             r == runDueActions(inst, currentTime - inst.startTime, w)
         IN filterActive(list, i + 1, currentTime,
                         IF keepInstance(r.inst) THEN <<r.inst>> \o kept ELSE kept,
                         r.w)

filterActive(list, i, currentTime, kept, w) ==
    IF i > Len(list) THEN [kept |-> kept, w |-> w]
    ELSE LET r == runDueActions(list[i], currentTime - list[i].startTime, w)
         IN filterActive(list, i + 1, currentTime,
                         IF keepInstance(r.inst) THEN Append(kept, r.inst) ELSE kept,
                         r.w)

updateActiveScripts(ch, mt, list, tbl, currentTime, uid) ==
    LET w0 == [ch |-> ch, mt |-> mt, arr |-> list, fired |-> <<>>, errors |-> 0,
               tbl |-> tbl, t |-> currentTime, uid |-> uid]
        r == filterActive(list, 1, currentTime, <<>>, w0)
    IN \* this.activeScripts = <result of filter>
       [ch |-> r.w.ch, mt |-> r.w.mt, active |-> r.kept, fired |-> r.w.fired,
        errors |-> r.w.errors, uid |-> r.w.uid,
        pushed |-> SubSeq(r.w.arr, Len(list) + 1, Len(r.w.arr))]

\* registerScript's checks: "notArray", "throws" (a property read on null or
\* undefined), "invalid" (an entry fails the typeof tests) or "ok"
RECURSIVE validateFrom(_, _)
validateFrom(items, i) ==
    IF i > Len(items) THEN "ok"
    ELSE IF items[i].kind = "null" THEN "throws"
    ELSE IF ~items[i].timeIsNumber \/ ~items[i].actionIsFunction THEN "invalid"
    ELSE validateFrom(items, i + 1)

validate(sa) == IF ~sa.isArray THEN "notArray" ELSE validateFrom(sa.items, 1)

-----------------------------------------------------------------------------
(* State after the constructors *)

\* new PhysicsEngine(controls): no Ammo, no world, no body
PhysicsConstructed ==
    [Ammo |-> FALSE, physicsWorld |-> FALSE, droneRigidBody |-> FALSE,
     rigidBodies |-> <<>>, tmpTransformation |-> FALSE,
     settings |-> [useIndividualMotors |-> FALSE, maxThrust |-> 1]]

\* history of the last animation frame: no frame yet
NoTick == [n |-> 0, calls |-> <<>>, tracked |-> 0, read |-> <<>>,
           inputs |-> getControlInputs([c \in ChannelNames |-> 0],
                                       [m \in MotorNames |-> 0]),
           forces |-> <<>>]

\* new App(): the page has not loaded Ammo or the drone mesh yet
AppConstructed ==
    /\ physicsEngine = PhysicsConstructed
    /\ app = [phase |-> "constructed", initFailed |-> FALSE]
    /\ world = [Ammo |-> FALSE, listener |-> FALSE, drone |-> FALSE, retryPending |-> 0]
    /\ tick = NoTick

registerDefaultScripts ==
    /\ scripts = [id \in {"hover", "yawSpin"} |->
                    IF id = "hover" THEN HoverScript ELSE YawSpinScript]
    /\ scriptBindings = [k \in {"KeyS", "KeyY"} |->
                    IF k = "KeyS" THEN "hover" ELSE "yawSpin"]

History0 ==
    /\ reported = "log"
    /\ raised = FALSE
    /\ log = <<>>
    /\ nextUid = 0
    /\ started = <<>>
    /\ nUpdates = 0
    /\ last = [op |-> "constructor", arg |-> "", arg2 |-> ""]

\* this.channels as the constructor sets it
ConstructorChannels == [roll |-> 0, pitch |-> 0, yaw |-> 0, throttle |-> Half]

\* nobody has called getControlInputs() yet
NoSnapshot == [held |-> FALSE, value |-> getControlInputs(ConstructorChannels,
                                                         [m \in MotorNames |-> 0])]

\* what a held snapshot reads as once the engine's motor thrusts are mt
snapshotAfter(snap, mt) ==
    IF snap.held /\ snap.value.shared
    THEN [snap EXCEPT !.value.motorThrusts = mt]
    ELSE snap

Init ==
    /\ channels = ConstructorChannels
    /\ motorThrusts = [m \in MotorNames |-> HoverThrust]
    /\ keyStates = EmptyMap
    /\ connected = FALSE
    /\ axes = <<0, 0, 0, 0>>
    /\ activeScripts = <<>>
    /\ now = 0
    /\ registerDefaultScripts
    /\ History0
    /\ snapshot = NoSnapshot
    /\ AppConstructed

-----------------------------------------------------------------------------
(* Operations *)

Op(name, a, b) == last' = [op |-> name, arg |-> a, arg2 |-> b]

\* (variant: a script that is already running is not started again)
executeScriptIfIdle(scriptId, d) ==
    IF \E i \in 1 .. Len(activeScripts) : activeScripts[i].id = scriptId
    THEN /\ reported' = "warn"
         /\ raised' = FALSE
         /\ UNCHANGED <<activeScripts, now, nextUid, started>>
    ELSE IF scriptId \in DOMAIN scripts
    THEN /\ activeScripts' = Append(activeScripts,
                                    NewInstance(scripts, scriptId, now + d, nextUid))
         /\ now' = now + d
         /\ nextUid' = nextUid + 1
         /\ started' = Append(started, NewInstance(scripts, scriptId, now + d, nextUid))
         /\ reported' = "log"
         /\ raised' = FALSE
    ELSE /\ reported' = "warn"
         /\ raised' = (scriptId \in ObjectPrototypeProps)
         /\ UNCHANGED <<activeScripts, now, nextUid, started>>

\* executeScript(scriptId), as a relation on the state it touches; d is the
\* time that has gone by since performance.now() was last read
executeScript(scriptId, d) ==
    IF ScriptTruthy(scripts, scriptId)
    THEN IF scriptId \in DOMAIN scripts
         THEN /\ activeScripts' = Append(activeScripts,
                                         NewInstance(scripts, scriptId, now + d, nextUid))
              /\ now' = now + d
              /\ nextUid' = nextUid + 1
              /\ started' = Append(started, NewInstance(scripts, scriptId, now + d, nextUid))
              /\ reported' = "log"
              /\ raised' = FALSE
         ELSE \* [...script] of something that is not iterable: TypeError
              /\ raised' = TRUE
              /\ UNCHANGED <<activeScripts, now, nextUid, started, reported>>
    ELSE /\ reported' = "warn"
         /\ raised' = FALSE
         /\ UNCHANGED <<activeScripts, now, nextUid, started>>

ExecuteScript(scriptId, d) ==
    /\ executeScript(scriptId, d)
    /\ Op("executeScript", scriptId, "")
    /\ UNCHANGED <<channels, motorThrusts, keyStates, connected, axes, scripts,
                   scriptBindings, log, nUpdates, snapshot>>
    /\ UNCHANGED appVars

\* (variant: the key recorded as pressed whether it is bound or not)
onKeyDownAlwaysPressed(key, d) ==
    /\ IF Bound(scriptBindings, key)
       THEN executeScript(scriptBindings[key], d)
       ELSE /\ UNCHANGED <<activeScripts, now, nextUid, started, reported>>
            /\ raised' = FALSE
    /\ keyStates' = Put(keyStates, key, TRUE)
    /\ Op("onKeyDown", key, "")
    /\ UNCHANGED <<channels, motorThrusts, connected, axes, scripts,
                   scriptBindings, log, nUpdates, snapshot>>
    /\ UNCHANGED appVars

onKeyDown(key, d) ==
    /\ IF Bound(scriptBindings, key)
       THEN /\ executeScript(scriptBindings[key], d)
            /\ UNCHANGED keyStates
       ELSE /\ keyStates' = Put(keyStates, key, TRUE)
            /\ UNCHANGED <<activeScripts, now, nextUid, started, reported>>
            /\ raised' = FALSE
    /\ Op("onKeyDown", key, "")
    /\ UNCHANGED <<channels, motorThrusts, connected, axes, scripts,
                   scriptBindings, log, nUpdates, snapshot>>
    /\ UNCHANGED appVars

onKeyUp(key) ==
    /\ IF ~Bound(scriptBindings, key)
       THEN keyStates' = Put(keyStates, key, FALSE)
       ELSE UNCHANGED keyStates
    /\ raised' = FALSE
    /\ Op("onKeyUp", key, "")
    /\ UNCHANGED <<channels, motorThrusts, connected, axes, scripts, scriptBindings,
                   activeScripts, now, reported, log, nextUid, started, nUpdates,
                   snapshot>>
    /\ UNCHANGED appVars

\* (variant: the active scripts run before the channels are updated from
\* the gamepad or the keyboard)
updateScriptsFirst(conn, ax, d) ==
    /\ LET r == updateActiveScripts(channels, motorThrusts, activeScripts, scripts,
                                    now + d, nextUid)
           c == updateControlChannels(r.ch, r.mt, keyStates, conn, ax)
       IN /\ channels' = c.ch
          /\ motorThrusts' = c.mt
          /\ activeScripts' = r.active
          /\ log' = log \o [i \in 1..Len(r.fired) |->
                              [uid |-> r.fired[i].uid, id |-> r.fired[i].id,
                               idx |-> r.fired[i].idx, elapsed |-> r.fired[i].elapsed,
                               threw |-> r.fired[i].threw, upd |-> nUpdates + 1]]
          /\ reported' = IF r.errors > 0 THEN "error"
                         ELSE IF Len(r.fired) > 0 THEN "log" ELSE reported
          /\ nextUid' = r.uid
          /\ started' = started \o r.pushed
          /\ snapshot' = snapshotAfter(snapshot, c.mt)
    /\ connected' = conn
    /\ axes' = ax
    /\ raised' = FALSE
    /\ nUpdates' = nUpdates + 1
    /\ now' = now + d
    /\ Op("update", "", "")
    /\ UNCHANGED <<keyStates, scripts, scriptBindings>>

\* update(deltaTime): gamepadHandler.update() leaves the handler with
\* connected = conn and axes = ax; deltaTime is not read by any callee; d is
\* the time that has gone by since performance.now() was last read.
\* A relation on the state of DroneControls and the objects it handed out.
update(conn, ax, d) ==
    /\ LET c == updateControlChannels(channels, motorThrusts, keyStates, conn, ax)
           r == updateActiveScripts(c.ch, c.mt, activeScripts, scripts, now + d, nextUid)
       IN /\ channels' = r.ch
          /\ motorThrusts' = r.mt
          /\ activeScripts' = r.active
          /\ log' = log \o [i \in 1..Len(r.fired) |->
                              [uid |-> r.fired[i].uid, id |-> r.fired[i].id,
                               idx |-> r.fired[i].idx, elapsed |-> r.fired[i].elapsed,
                               threw |-> r.fired[i].threw, upd |-> nUpdates + 1]]
          /\ reported' = IF r.errors > 0 THEN "error"
                         ELSE IF Len(r.fired) > 0 THEN "log" ELSE reported
          /\ nextUid' = r.uid
          /\ started' = started \o r.pushed
          /\ snapshot' = snapshotAfter(snapshot, r.mt)
    /\ connected' = conn
    /\ axes' = ax
    /\ raised' = FALSE
    /\ nUpdates' = nUpdates + 1
    /\ now' = now + d
    /\ Op("update", "", "")
    /\ UNCHANGED <<keyStates, scripts, scriptBindings>>

\* update() called by a host that has no physics engine
ControlsFrame(conn, ax, d) ==
    /\ update(conn, ax, d)
    /\ UNCHANGED appVars

\* getControlInputs() called by a host that keeps the object it gets
HostGetsControlInputs ==
    /\ snapshot' = [held |-> TRUE, value |-> getControlInputs(channels, motorThrusts)]
    /\ raised' = FALSE
    /\ Op("getControlInputs", "", "")
    /\ UNCHANGED <<channels, motorThrusts, keyStates, connected, axes, scripts,
                   scriptBindings, activeScripts, now, reported, log, nextUid, started,
                   nUpdates>>
    /\ UNCHANGED appVars

\* the host assigns to a property of the object it got: one of the four
\* channel properties, or a property of the nested motorThrusts object
HostWritesSnapshot(field, v) ==
    /\ snapshot.held
    /\ IF field \in MotorNames
       THEN /\ snapshot' = [snapshot EXCEPT !.value.motorThrusts[field] = v]
            /\ motorThrusts' = IF snapshot.value.shared
                               THEN [motorThrusts EXCEPT ![field] = v]
                               ELSE motorThrusts
       ELSE /\ snapshot' = [snapshot EXCEPT !.value[field] = v]
            /\ UNCHANGED motorThrusts
    /\ Op("writeSnapshot", field, "")
    /\ UNCHANGED <<channels, keyStates, connected, axes, scripts, scriptBindings,
                   activeScripts, now, reported, raised, log, nextUid, started, nUpdates>>
    /\ UNCHANGED appVars

\* (variant: the running instances of the id take over the new action list)
registerScriptLive(scriptId, scriptActions) ==
    /\ LET v == validate(scriptActions)
       IN /\ scripts' = IF v = "ok" THEN Put(scripts, scriptId, scriptActions.items)
                        ELSE scripts
          /\ activeScripts' =
                [i \in 1 .. Len(activeScripts) |->
                    IF v = "ok" /\ activeScripts[i].id = scriptId
                    THEN [activeScripts[i] EXCEPT !.actions = scriptActions.items]
                    ELSE activeScripts[i]]
          /\ reported' = CASE v = "ok" -> "log"
                           [] v = "throws" -> reported
                           [] OTHER -> "error"
          /\ raised' = (v = "throws")
    /\ Op("registerScript", scriptId, "")
    /\ UNCHANGED <<channels, motorThrusts, keyStates, connected, axes, scriptBindings,
                   now, log, nextUid, started, nUpdates, snapshot>>
    /\ UNCHANGED appVars

registerScript(scriptId, scriptActions) ==
    /\ LET v == validate(scriptActions)
       IN /\ scripts' = IF v = "ok" THEN Put(scripts, scriptId, scriptActions.items)
                        ELSE scripts
          /\ reported' = CASE v = "ok" -> "log"
                           [] v = "throws" -> reported
                           [] OTHER -> "error"
          /\ raised' = (v = "throws")
    /\ Op("registerScript", scriptId, "")
    /\ UNCHANGED <<channels, motorThrusts, keyStates, connected, axes, scriptBindings,
                   activeScripts, now, log, nextUid, started, nUpdates, snapshot>>
    /\ UNCHANGED appVars

bindKeyToScript(keyCode, scriptId) ==
    /\ IF ~ScriptTruthy(scripts, scriptId)
       THEN /\ reported' = "error"
            /\ UNCHANGED scriptBindings
       ELSE /\ scriptBindings' = Put(scriptBindings, keyCode, scriptId)
            /\ reported' = "log"
    /\ raised' = FALSE
    /\ Op("bindKeyToScript", keyCode, scriptId)
    /\ UNCHANGED <<channels, motorThrusts, keyStates, connected, axes, scripts,
                   activeScripts, now, log, nextUid, started, nUpdates, snapshot>>
    /\ UNCHANGED appVars

-----------------------------------------------------------------------------
(* PhysicsEngine: velocities are vectors of whole numbers of m/s (rad/s),   *)
(* taken from vectors whose length is a whole number too, so that length()  *)
(* and the rescaling are exact.                                             *)

maxVelocity == 50
maxAngularVelocity == 10

Abs(x) == IF x >= 0 THEN x ELSE -x
Dot(a, b) == a[1] * b[1] + a[2] * b[2] + a[3] * b[3]
Cross(a, b) == << a[2] * b[3] - a[3] * b[2],
                  a[3] * b[1] - a[1] * b[3],
                  a[1] * b[2] - a[2] * b[1] >>

\* btVector3.length()
Length(v) == CHOOSE n \in 0 .. (Abs(v[1]) + Abs(v[2]) + Abs(v[3])) : n * n = Dot(v, v)

\* (variant: each component limited by itself)
limitVelocityPerAxis(velocity, max) ==
    [i \in 1 .. 3 |-> Max(-max, Min(max, velocity[i]))]

\* "Limit maximum linear velocity" / "Limit maximum angular velocity" of
\* updateMeshPositions: the vector the body is left with
limitVelocity(velocity, max) ==
    LET currentSpeed == Length(velocity)
    IN IF currentSpeed > max
       THEN [i \in 1 .. 3 |-> (velocity[i] * max) \div currentSpeed]
       ELSE velocity

\* A number the provider hands back is finite, NaN or an infinity. A vector
\* read from the provider is a tuple of whole numbers and, beside it, the
\* tuple of the kinds of its components; where the kind is not "finite" the
\* whole number stands for nothing.
NumberKinds == {"finite", "NaN", "Infinity"}
isFinite(kind) == kind = "finite"
AllFinite(n) == [i \in 1 .. n |-> "finite"]

\* the kind of length() of a vector with components of these kinds
lengthKind(kinds) ==
    IF \E i \in DOMAIN kinds : kinds[i] = "NaN" THEN "NaN"
    ELSE IF \E i \in DOMAIN kinds : kinds[i] = "Infinity" THEN "Infinity"
    ELSE "finite"

\* length() > bound: false for NaN, true for Infinity
lengthExceeds(v, kinds, bound) ==
    \/ lengthKind(kinds) = "Infinity"
    \/ lengthKind(kinds) = "finite" /\ Length(v) > bound

\* the velocity limit on a vector as read: nothing is done when length() is
\* NaN; with an infinite length the scale max / length is 0, which makes 0
\* of a finite component and NaN of an infinite one
limitRead(v, kinds, max) ==
    IF lengthKind(kinds) = "NaN" THEN [v |-> v, kinds |-> kinds]
    ELSE IF lengthKind(kinds) = "Infinity"
    THEN [v |-> [i \in 1 .. 3 |-> 0],
          kinds |-> [i \in 1 .. 3 |-> IF kinds[i] = "Infinity" THEN "NaN" ELSE "finite"]]
    ELSE [v |-> limitVelocity(v, max), kinds |-> kinds]

\* THREE.Vector3.applyQuaternion for a quaternion <<x, y, z, w>> of length 1
applyQuaternion(v, q) ==
    LET u == << q[1], q[2], q[3] >>
        t == [i \in 1 .. 3 |-> 2 * Cross(u, v)[i]]
    IN [i \in 1 .. 3 |-> v[i] + q[4] * t[i] + Cross(u, t)[i]]

identityRotation == << 0, 0, 0, 1 >>
motorPositions == << <<1, 0, 1>>, <<-1, 0, 1>>, <<-1, 0, -1>>, <<1, 0, -1>> >>

\* a call made during a frame, and the tracked body it is about (0: none)
Call(op, body) == [op |-> op, body |-> body]

\* a force or torque handed to the body: the vector, in units of 0.0025 N
\* (a torque in units of 0.00125 N m: torqueStrength 0.5 times a channel
\* value; a drag force in units of 1 / DragUnit newton), where it is applied,
\* and whether all its components are finite
Force(op, vec, at, finite) == [op |-> op, vec |-> vec, at |-> at, finite |-> finite]

\* the body createDronePhysics makes, with the mesh it is paired with: the
\* transform is the mesh's, the body is at rest
NewBody ==
    [lin |-> <<0, 0, 0>>, linKinds |-> AllFinite(3),
     ang |-> <<0, 0, 0>>, angKinds |-> AllFinite(3),
     origin |-> <<0, 0, 0>>, originKinds |-> AllFinite(3),
     rotation |-> identityRotation, rotationKinds |-> AllFinite(4),
     motionState |-> TRUE,
     mesh |-> [position |-> <<0, 0, 0>>, positionKinds |-> AllFinite(3),
               quaternion |-> identityRotation, quaternionKinds |-> AllFinite(4)]]

\* stepSimulation: the body as the provider's step leaves it
stepped(body, outcome) ==
    [body EXCEPT !.lin = outcome.lin, !.linKinds = outcome.linKinds,
                 !.ang = outcome.ang, !.angKinds = outcome.angKinds,
                 !.origin = outcome.origin, !.originKinds = outcome.originKinds,
                 !.rotation = outcome.rotation, !.rotationKinds = outcome.rotationKinds]

\* "Ensure valid numerical values": a component that is not finite is taken
\* from the mesh as it is
meshSet(mesh, body) ==
    [position |-> [i \in 1 .. 3 |-> IF isFinite(body.originKinds[i])
                                    THEN body.origin[i] ELSE mesh.position[i]],
     positionKinds |-> [i \in 1 .. 3 |-> IF isFinite(body.originKinds[i])
                                         THEN "finite" ELSE mesh.positionKinds[i]],
     quaternion |-> [i \in 1 .. 4 |-> IF isFinite(body.rotationKinds[i])
                                      THEN body.rotation[i] ELSE mesh.quaternion[i]],
     quaternionKinds |-> [i \in 1 .. 4 |-> IF isFinite(body.rotationKinds[i])
                                           THEN "finite" ELSE mesh.quaternionKinds[i]]]

\* the body of the loop of updateMeshPositions, for tracked body i
syncAndLimit(body, i) ==
    IF body.motionState
    THEN LET lin == limitRead(body.lin, body.linKinds, maxVelocity)
             ang == limitRead(body.ang, body.angKinds, maxAngularVelocity)
         IN [body |-> [body EXCEPT !.mesh = meshSet(body.mesh, body),
                                   !.lin = lin.v, !.linKinds = lin.kinds,
                                   !.ang = ang.v, !.angKinds = ang.kinds],
             calls |-> << Call("getWorldTransform", i), Call("meshSet", i),
                          Call("getLinearVelocity", i) >>
                       \o (IF lengthExceeds(body.lin, body.linKinds, maxVelocity)
                           THEN << Call("setLinearVelocity", i) >> ELSE << >>)
                       \o << Call("getAngularVelocity", i) >>
                       \o (IF lengthExceeds(body.ang, body.angKinds, maxAngularVelocity)
                           THEN << Call("setAngularVelocity", i) >> ELSE << >>)]
    ELSE [body |-> body, calls |-> << >>]

RECURSIVE updateMeshPositions(_, _, _)
updateMeshPositions(bodies, i, calls) ==
    IF i > Len(bodies) THEN [bodies |-> bodies, calls |-> calls]
    ELSE LET r == syncAndLimit(bodies[i], i)
         IN updateMeshPositions([bodies EXCEPT ![i] = r.body], i + 1, calls \o r.calls)

\* the settings of the drag, as fractions: 0.47, 0.25 m^2, 1.225 kg/m^3
dragCoefficient == [num |-> 47, den |-> 100]
frontalArea == [num |-> 1, den |-> 4]
airDensity == [num |-> 49, den |-> 40]

\* drag forces are in units of 1 / DragUnit newton: the product of the
\* denominators of 0.5 and of the three settings
DragUnit == 2 * dragCoefficient.den * frontalArea.den * airDensity.den

\* (variant: the drag proportional to the speed)
dragMagnitudeLinear(speed) ==
    1 * dragCoefficient.num * frontalArea.num * airDensity.num * speed

\* 0.5 * dragCoefficient * frontalArea * airDensity * speed * speed, the
\* leading 1 being the numerator of 0.5
dragMagnitude(speed) ==
    1 * dragCoefficient.num * frontalArea.num * airDensity.num * speed * speed

\* the vector handed to applyCentralForce when speed > 0: the velocity
\* negated, normalized and multiplied by dragMagnitude (each component of
\* the velocity times magnitude over speed, a whole number of units); not
\* finite when a component of the velocity is not
dragForce(velocity, kinds) ==
    IF lengthKind(kinds) = "finite"
    THEN LET speed == Length(velocity)
         IN Force("applyCentralForce:drag",
                  [i \in 1 .. 3 |-> (-velocity[i]) * (dragMagnitude(speed) \div speed)],
                  <<0, 0, 0>>, TRUE)
    ELSE Force("applyCentralForce:drag", <<0, 0, 0>>, <<0, 0, 0>>, FALSE)

\* applyAerodynamics: drag when speed > 0, lift always (of the lift the call
\* alone is kept)
applyAerodynamics(drone) ==
    IF lengthExceeds(drone.lin, drone.linKinds, 0)
    THEN [calls |-> << Call("applyCentralForce:drag", 1),
                       Call("applyCentralForce:lift", 1) >>,
          forces |-> << dragForce(drone.lin, drone.linKinds) >>]
    ELSE [calls |-> << Call("applyCentralForce:lift", 1) >>,
          forces |-> << >>]

\* "Individual Motor Control Mode": for each motor a force of its thrust
\* times maxThrust along the body's up axis, applied at the motor's position
individualMotorControl(settings, controls, drone) ==
    LET thrusts == << controls.motorThrusts.motor1, controls.motorThrusts.motor2,
                      controls.motorThrusts.motor3, controls.motorThrusts.motor4 >>
        rotated == \A i \in 1 .. 4 : isFinite(drone.rotationKinds[i])
        placed == rotated /\ \A i \in 1 .. 3 : isFinite(drone.originKinds[i])
    IN [calls |-> << Call("getControlInputs", 0) >>
                  \o [i \in 1 .. 4 |-> Call("applyForce", 1)],
        forces |-> [i \in 1 .. 4 |->
            Force("applyForce",
                  applyQuaternion(<<0, thrusts[i] * settings.maxThrust, 0>>, drone.rotation),
                  LET at == applyQuaternion(motorPositions[i], drone.rotation)
                  IN [k \in 1 .. 3 |-> at[k] + drone.origin[k]],
                  placed)]]

\* "Standard Control Mode": one central force of throttle times maxThrust
\* along the body's up axis and one torque from roll, yaw and pitch
standardControl(settings, controls, drone) ==
    LET rotated == \A i \in 1 .. 4 : isFinite(drone.rotationKinds[i])
    IN [calls |-> << Call("getControlInputs", 0), Call("applyCentralForce:thrust", 1),
                     Call("applyTorque", 1) >>,
        forces |-> << Force("applyCentralForce:thrust",
                            applyQuaternion(<<0, controls.throttle * settings.maxThrust, 0>>,
                                            drone.rotation),
                            <<0, 0, 0>>, rotated),
                      Force("applyTorque",
                            applyQuaternion(<<controls.roll, -controls.yaw, controls.pitch>>,
                                            drone.rotation),
                            <<0, 0, 0>>, rotated) >>]

\* (variant: the mode taken from the inputs, per-motor while the throttle is
\* below one half)
applyControlsByThrottle(settings, controls, drone) ==
    IF controls.throttle < Half
    THEN individualMotorControl(settings, controls, drone)
    ELSE standardControl(settings, controls, drone)

\* (variant: the torque from roll, yaw and pitch applied in per-motor mode
\* as well)
applyControlsWithTorque(settings, controls, drone) ==
    IF settings.useIndividualMotors
    THEN LET motors == individualMotorControl(settings, controls, drone)
             standard == standardControl(settings, controls, drone)
         IN [calls |-> motors.calls \o << standard.calls[3] >>,
             forces |-> motors.forces \o << standard.forces[2] >>]
    ELSE standardControl(settings, controls, drone)

\* applyControlsToDrone, with the control inputs getControlInputs() returned
\* and the drone body as the step left it
applyControlsToDrone(settings, controls, drone) ==
    IF settings.useIndividualMotors
    THEN individualMotorControl(settings, controls, drone)
    ELSE standardControl(settings, controls, drone)

\* (variant: the meshes synced and the velocities limited only while there
\* is no drone body to apply forces to)
physicsUpdateForcesOrSync(pe, ch, mt, outcome, none) ==
    IF pe.physicsWorld
    THEN LET after == [i \in 1 .. Len(pe.rigidBodies) |->
                            stepped(pe.rigidBodies[i], outcome)]
         IN IF pe.droneRigidBody
            THEN LET c == applyControlsToDrone(pe.settings, getControlInputs(ch, mt),
                                               after[1])
                 IN [pe |-> [pe EXCEPT !.rigidBodies = after],
                     calls |-> << Call("stepSimulation", 0) >>
                               \o applyAerodynamics(after[1]).calls \o c.calls,
                     tracked |-> Len(after),
                     read |-> after,
                     inputs |-> getControlInputs(ch, mt),
                     forces |-> applyAerodynamics(after[1]).forces \o c.forces]
            ELSE LET m == updateMeshPositions(after, 1, << >>)
                 IN [pe |-> [pe EXCEPT !.rigidBodies = m.bodies],
                     calls |-> << Call("stepSimulation", 0) >> \o m.calls,
                     tracked |-> Len(after),
                     read |-> after,
                     inputs |-> none,
                     forces |-> << >>]
    ELSE [pe |-> pe, calls |-> << >>, tracked |-> Len(pe.rigidBodies),
          read |-> << >>, inputs |-> none, forces |-> << >>]

\* PhysicsEngine.update(): outcome is what the provider's step leaves the
\* tracked bodies with; none is what the history shows for the control
\* inputs when they are not read
physicsUpdate(pe, ch, mt, outcome, none) ==
    IF pe.physicsWorld
    THEN LET after == [i \in 1 .. Len(pe.rigidBodies) |->
                            stepped(pe.rigidBodies[i], outcome)]
             c == IF pe.droneRigidBody
                  THEN applyControlsToDrone(pe.settings, getControlInputs(ch, mt), after[1])
                  ELSE [calls |-> << >>, forces |-> << >>]
             aero == IF pe.droneRigidBody THEN applyAerodynamics(after[1])
                     ELSE [calls |-> << >>, forces |-> << >>]
             m == updateMeshPositions(after, 1, << >>)
         IN [pe |-> [pe EXCEPT !.rigidBodies = m.bodies],
             calls |-> << Call("stepSimulation", 0) >> \o aero.calls \o c.calls
                       \o m.calls,
             tracked |-> Len(after),
             read |-> after,
             inputs |-> IF pe.droneRigidBody THEN getControlInputs(ch, mt) ELSE none,
             forces |-> aero.forces \o c.forces]
    ELSE [pe |-> pe, calls |-> << >>, tracked |-> Len(pe.rigidBodies),
          read |-> << >>, inputs |-> none, forces |-> << >>]

\* (variant: the timer set whether the body was made or not)
createDronePhysicsKeepsRetrying(pe, w) ==
    IF ~w.drone
    THEN [pe |-> pe, world |-> [w EXCEPT !.retryPending = @ + 1]]
    ELSE [pe |-> [pe EXCEPT !.droneRigidBody = TRUE,
                            !.rigidBodies = Append(@, NewBody)],
          world |-> [w EXCEPT !.retryPending = @ + 1]]

\* createDronePhysics(): without a drone mesh in the scene it only sets a
\* timer to try again
createDronePhysics(pe, w) ==
    IF ~w.drone
    THEN [pe |-> pe, world |-> [w EXCEPT !.retryPending = @ + 1]]
    ELSE [pe |-> [pe EXCEPT !.droneRigidBody = TRUE,
                            !.rigidBodies = Append(@, NewBody)],
          world |-> w]

\* PhysicsEngine.init() from the point where loadAmmo() has resolved and
\* this.Ammo is window.Ammo, which is defined or not
physicsInit(pe, ammoDefined, w) ==
    IF ~ammoDefined
    THEN [pe |-> [pe EXCEPT !.Ammo = FALSE], world |-> w, failed |-> TRUE]
    ELSE LET r == createDronePhysics([pe EXCEPT !.Ammo = TRUE, !.physicsWorld = TRUE], w)
         IN [pe |-> [r.pe EXCEPT !.tmpTransformation = TRUE], world |-> r.world,
             failed |-> FALSE]

-----------------------------------------------------------------------------
(* App *)

\* App.animate() with the physics engine as pe when it is called:
\* physicsEngine.update(1/60), then controls.update(), then render
animate(pe, conn, ax, d, outcome) ==
    /\ LET r == physicsUpdate(pe, channels, motorThrusts, outcome, NoTick.inputs)
       IN /\ physicsEngine' = r.pe
          /\ tick' = [n |-> tick.n + 1,
                      calls |-> r.calls \o << Call("controls.update", 0),
                                              Call("render", 0) >>,
                      tracked |-> r.tracked,
                      read |-> r.read,
                      inputs |-> r.inputs,
                      forces |-> r.forces]
    /\ update(conn, ax, d)

\* a frame requested by the animate() before it
AnimationFrame(conn, ax, d, outcome) ==
    /\ app.phase = "running"
    /\ animate(physicsEngine, conn, ax, d, outcome)
    /\ UNCHANGED <<app, world>>

\* App.init() from the point where physicsEngine.init()'s loadAmmo() has
\* resolved to its end: the rest of physicsEngine.init(), the camera, the
\* resize listener and the first animate()
initContinues(ammoDefined, conn, ax, d, outcome) ==
    LET r == physicsInit(physicsEngine, ammoDefined, world)
    IN /\ app' = [phase |-> "running", initFailed |-> r.failed]
       /\ world' = [r.world EXCEPT !.Ammo = ammoDefined]
       /\ animate(r.pe, conn, ax, d, outcome)

\* App.init(): with window.Ammo there loadAmmo() resolves at once, without
\* it init waits for the page's 'ammo-loaded' event
AppInit(conn, ax, d, outcome) ==
    /\ app.phase = "constructed"
    /\ IF world.Ammo
       THEN initContinues(TRUE, conn, ax, d, outcome)
       ELSE /\ app' = [app EXCEPT !.phase = "awaitingAmmo"]
            /\ world' = [world EXCEPT !.listener = TRUE]
            /\ UNCHANGED <<physicsEngine, tick>>
            /\ UNCHANGED <<channels, motorThrusts, keyStates, connected, axes, scripts,
                           scriptBindings, activeScripts, now, reported, raised, log,
                           nextUid, started, nUpdates, last, snapshot>>

\* the page dispatches 'ammo-loaded' while init waits for it; window.Ammo is
\* defined by then, or it is not
AmmoLoadedEvent(ammoDefined, conn, ax, d, outcome) ==
    /\ app.phase = "awaitingAmmo"
    /\ world.listener
    /\ initContinues(ammoDefined, conn, ax, d, outcome)

\* the page's Ammo script has run before App.init()
PageLoadsAmmo ==
    /\ app.phase = "constructed"
    /\ ~world.Ammo
    /\ world' = [world EXCEPT !.Ammo = TRUE]
    /\ UNCHANGED <<physicsEngine, app, tick>>
    /\ UNCHANGED <<channels, motorThrusts, keyStates, connected, axes, scripts,
                   scriptBindings, activeScripts, now, reported, raised, log,
                   nextUid, started, nUpdates, last, snapshot>>

\* the scene has loaded the drone mesh
DroneMeshLoads ==
    /\ ~world.drone
    /\ world' = [world EXCEPT !.drone = TRUE]
    /\ UNCHANGED <<physicsEngine, app, tick>>
    /\ UNCHANGED <<channels, motorThrusts, keyStates, connected, axes, scripts,
                   scriptBindings, activeScripts, now, reported, raised, log,
                   nextUid, started, nUpdates, last, snapshot>>

\* the timer createDronePhysics set fires: createDronePhysics again
RetryTimer ==
    /\ world.retryPending > 0
    /\ LET r == createDronePhysics(physicsEngine,
                                   [world EXCEPT !.retryPending = @ - 1])
       IN /\ physicsEngine' = r.pe
          /\ world' = r.world
    /\ UNCHANGED <<app, tick>>
    /\ UNCHANGED <<channels, motorThrusts, keyStates, connected, axes, scripts,
                   scriptBindings, activeScripts, now, reported, raised, log,
                   nextUid, started, nUpdates, last, snapshot>>

\* the host sets the control mode and the maximum thrust in the settings of
\* the engine it has constructed, before App.init()
HostSetsSettings(useIndividualMotors, maxThrust) ==
    /\ app.phase = "constructed"
    /\ physicsEngine' = [physicsEngine EXCEPT
            !.settings = [useIndividualMotors |-> useIndividualMotors,
                          maxThrust |-> maxThrust]]
    /\ UNCHANGED <<app, world, tick>>
    /\ UNCHANGED <<channels, motorThrusts, keyStates, connected, axes, scripts,
                   scriptBindings, activeScripts, now, reported, raised, log,
                   nextUid, started, nUpdates, last, snapshot>>

-----------------------------------------------------------------------------
(* Inputs *)

\* What gamepadHandler.update() can leave behind: no gamepad, or a gamepad
\* with four normalized axes (roll, pitch, yaw, raw throttle)
NoGamepad == [connected |-> FALSE, axes |-> <<0, 0, 0, 0>>]
GamepadReadings ==
    { NoGamepad, [connected |-> TRUE, axes |-> <<One, -One, Half, 0>>] }

\* Normalized axes a connected gamepad can report (roll, pitch, yaw, raw
\* throttle), the ends of the range included
AxisSamples == { <<One, -One, Half, 0>>, <<-One, One, 0, -One>>, <<0, 0, -Half, One>> }

\* Scripts a caller may register
TwoStepScript == << SetAt(0, "roll", Half), SetAt(1000, "roll", -Half) >>
OverdriveScript == << SetAt(0, "throttle", -One), SetAt(0, "motor1", 2 * One) >>

ThrowingScript == << ThrowAt(0), SetAt(0, "pitch", Half), SetAt(1000, "roll", Half) >>
NaNScript == << SetAt(0, "roll", Half), SetAtNaN("roll", 0) >>
MotorScript == << SetAt(0, "motor1", Half) >>
AltScript == << SetAt(0, "pitch", Half), SetAt(1000, "pitch", -Half),
                SetAt(1000, "yaw", Half) >>
UnsortedScript == << SetAt(1000, "roll", Half), SetAt(0, "pitch", Half) >>

\* scripts whose callbacks call controls.executeScript: one starts the hover
\* script and goes on, one starts itself again and later fails
ChainScript == << SetAt(0, "roll", Half), ExecAt(0, "hover"), SetAt(1000, "roll", -Half) >>
SelfStartScript == << ExecAt(0, "custom"), ThrowAt(1000) >>

\* Time gone by since performance.now() was last read: between two frames,
\* and between a frame and a key event
FrameSteps == {1, 999}
KeySteps == {0, 1}

-----------------------------------------------------------------------------
(* The script timeline: the caller registers one script under "custom",     *)
(* binds KeyQ to it, and instances are started by key presses while the     *)
(* clock advances and update() is called; no gamepad.                       *)

TimelineScripts == {TwoStepScript, ThrowingScript, UnsortedScript}

NextTimeline ==
    \/ /\ "custom" \notin DOMAIN scripts
       /\ \E items \in TimelineScripts : registerScript("custom", ArrayOf(items))
    \/ bindKeyToScript("KeyQ", "custom")
    \/ /\ nextUid < MaxStarted
       /\ \E d \in KeySteps : onKeyDown("KeyQ", d)
    \/ /\ nUpdates < MaxUpdates
       /\ \E d \in FrameSteps : ControlsFrame(NoGamepad.connected, NoGamepad.axes, d)

SpecTimeline == Init /\ [][NextTimeline]_vars

-----------------------------------------------------------------------------
(* The control channel engine: keyboard keys go down and up, the gamepad     *)
(* comes and goes, the yawSpin script is started by its key, the caller     *)
(* registers a script of its own and starts it, update() is called once per *)
(* frame.                                                                   *)

ControlKeys == {"KeyD", "KeyX"}
ScriptKeys == {"KeyY"}

Next ==
    \/ \E k \in ControlKeys : onKeyDown(k, 0)
    \/ \E k \in ControlKeys : onKeyUp(k)
    \/ /\ nextUid < MaxStarted
       /\ \E k \in ScriptKeys : onKeyDown(k, 0)
    \/ /\ nUpdates < MaxFrames
       /\ \E g \in GamepadReadings : ControlsFrame(g.connected, g.axes, 1)
    \/ /\ "custom" \notin DOMAIN scripts
       /\ registerScript("custom", ArrayOf(OverdriveScript))
    \/ /\ nextUid < MaxStarted
       /\ ExecuteScript("custom", 0)

Spec == Init /\ [][Next]_vars

-----------------------------------------------------------------------------
(* Configuration: scripts are registered and registered again, well-formed  *)
(* and malformed, keys are bound to registered and to unknown script ids,   *)
(* and the keys are pressed and released.                                   *)

RegisterArgs ==
    { ArrayOf(TwoStepScript),
      NotAnArray,
      ArrayOf(<<NullEntry>>),
      ArrayOf(<<PrimitiveEntry>>),
      ArrayOf(<<SetAt(0, "roll", 0), NoTimeEntry>>),
      ArrayOf(<<SetAt(0, "roll", 0), NoFunctionEntry>>) }

RegisterIds == {"hover", "custom"}
BindKeys == {"KeyS", "KeyQ"}
BindIds == {"hover", "custom", "missing", "constructor"}

NextConfig ==
    \/ \E id \in RegisterIds, sa \in RegisterArgs : registerScript(id, sa)
    \/ \E k \in BindKeys, id \in BindIds : bindKeyToScript(k, id)
    \/ /\ nextUid < MaxStarted
       /\ \E k \in BindKeys : onKeyDown(k, 0)
    \/ \E k \in BindKeys : onKeyUp(k)

SpecConfig == Init /\ [][NextConfig]_vars

-----------------------------------------------------------------------------
(* The engine left alone: from any in-range channel state, no key held, no   *)
(* gamepad, no script running, update() is called frame after frame (the     *)
(* animation loop reschedules itself every frame).                           *)

AxisStarts == {-One, -3, Half}
ThrottleStarts == {3, Half, One}

\* updates that bring any in-range channel to its center
SettleUpdates == One \div CenterRate

InitIdle ==
    /\ channels \in [roll : AxisStarts, pitch : AxisStarts, yaw : AxisStarts,
                      throttle : ThrottleStarts] \cup {ConstructorChannels}
    /\ motorThrusts = [m \in MotorNames |-> HoverThrust]
    /\ keyStates = EmptyMap
    /\ connected = FALSE
    /\ axes = <<0, 0, 0, 0>>
    /\ activeScripts = <<>>
    /\ now = 0
    /\ registerDefaultScripts
    /\ History0
    /\ snapshot = NoSnapshot
    /\ AppConstructed

NextIdle ==
    /\ nUpdates < SettleUpdates + MaxExtraUpdates
    /\ ControlsFrame(NoGamepad.connected, NoGamepad.axes, 1)

SpecIdle == InitIdle /\ [][NextIdle]_vars /\ WF_vars(NextIdle)

-----------------------------------------------------------------------------
(* Running to completion: scripts are started by the hover key and by the   *)
(* host while frames of half a second follow one another; the last start    *)
(* leaves enough frames for every offset of the scripts to go by.           *)

FrameMillis == 500
FramesToFinish == 1000 \div FrameMillis

CompletionScripts == {TwoStepScript, NaNScript}

CompletionFrame ==
    /\ nUpdates < MaxRunFrames
    /\ ControlsFrame(NoGamepad.connected, NoGamepad.axes, FrameMillis)

NextCompletion ==
    \/ /\ "custom" \notin DOMAIN scripts
       /\ \E items \in CompletionScripts : registerScript("custom", ArrayOf(items))
    \/ /\ nextUid < MaxStarted
       /\ nUpdates + FramesToFinish <= MaxRunFrames
       /\ ExecuteScript("custom", 0)
    \/ /\ nextUid < MaxStarted
       /\ nUpdates + FramesToFinish <= MaxRunFrames
       /\ onKeyDown("KeyS", 0)
    \/ CompletionFrame

SpecCompletion == Init /\ [][NextCompletion]_vars /\ WF_vars(CompletionFrame)

-----------------------------------------------------------------------------
(* Registering again: the host registers "custom" and registers it again    *)
(* with another action list, at any time, while instances of it are started *)
(* and frames of half a second follow one another.                          *)

ReregisterScripts == {TwoStepScript, AltScript}

NextReregister ==
    \/ \E items \in ReregisterScripts : registerScript("custom", ArrayOf(items))
    \/ /\ nextUid < MaxStarted
       /\ ExecuteScript("custom", 0)
    \/ /\ nUpdates < MaxUpdates
       /\ ControlsFrame(NoGamepad.connected, NoGamepad.axes, FrameMillis)

SpecReregister == Init /\ [][NextReregister]_vars

-----------------------------------------------------------------------------------------------------------------------------------------------------
(* The motors and the snapshot: a digit key goes down and up, the host      *)
(* registers and starts a script that sets a motor thrust, asks for the     *)
(* control inputs and writes to the object it got, update() is called once  *)
(* per frame; no gamepad.                                                   *)

HeldKeys == {"Digit1"}

\* what the host assigns to the object getControlInputs() gave it
SnapshotWrites == { <<"roll", One>>, <<"motor2", One>> }

NextKeys ==
    \/ \E k \in HeldKeys : ~Pressed(keyStates, k) /\ onKeyDown(k, 0)
    \/ \E k \in HeldKeys : Pressed(keyStates, k) /\ onKeyUp(k)
    \/ /\ "custom" \notin DOMAIN scripts
       /\ registerScript("custom", ArrayOf(MotorScript))
    \/ /\ nextUid < MaxKeyStarts
       /\ ExecuteScript("custom", 0)
    \/ /\ nUpdates < MaxKeyFrames
       /\ ControlsFrame(NoGamepad.connected, NoGamepad.axes, 1)
    \/ HostGetsControlInputs
    \/ \E w \in SnapshotWrites : HostWritesSnapshot(w[1], w[2])

SpecKeys == Init /\ [][NextKeys]_vars

-----------------------------------------------------------------------------
(* The application: the page loads Ammo and the drone mesh, or fails to,    *)
(* App.init() runs, and the animation loop calls the physics engine and the *)
(* controls once per frame; the throttle key goes down and up, no gamepad.  *)

\* velocities the provider's step can leave a body with
LinearReadings == { <<0, 0, 0>>, <<3, 0, 4>>, <<30, 40, 0>>, <<48, 64, 0>>, <<0, -100, 0>> }
AngularReadings == { <<0, 0, 0>>, <<6, 8, 0>>, <<0, 12, -16>> }

\* a step that leaves the body where it was made, with finite velocities
FiniteOutcome(lin, ang) ==
    [lin |-> lin, linKinds |-> AllFinite(3), ang |-> ang, angKinds |-> AllFinite(3),
     origin |-> NewBody.origin, originKinds |-> AllFinite(3),
     rotation |-> NewBody.rotation, rotationKinds |-> AllFinite(4)]

StepOutcomes == { FiniteOutcome(lin, ang) : lin \in LinearReadings, ang \in AngularReadings }

\* milliseconds from one frame to the next at 60 frames per second
FrameTime == 16

NextApp ==
    \/ ~Pressed(keyStates, "KeyW") /\ onKeyDown("KeyW", 0)
    \/ Pressed(keyStates, "KeyW") /\ onKeyUp("KeyW")
    \/ PageLoadsAmmo
    \/ DroneMeshLoads
    \/ RetryTimer
    \/ \E o \in StepOutcomes :
            AppInit(NoGamepad.connected, NoGamepad.axes, 0, o)
    \/ \E defined \in BOOLEAN, o \in StepOutcomes :
            AmmoLoadedEvent(defined, NoGamepad.connected, NoGamepad.axes, 0, o)
    \/ /\ tick.n < MaxTicks
       /\ \E o \in StepOutcomes :
            AnimationFrame(NoGamepad.connected, NoGamepad.axes, FrameTime, o)

SpecApp == Init /\ [][NextApp]_vars

\* the same program with the timer of createDronePhysics firing when it is
\* due: setTimeout calls its callback 100 ms later
SpecRetry == Init /\ [][NextApp]_vars /\ WF_vars(RetryTimer)

-----------------------------------------------------------------------------
(* Scripts that start scripts: the host registers under "custom" a script    *)
(* whose callbacks call executeScript, starts it, and frames of half a      *)
(* second follow one another; no gamepad.                                   *)

NestedScripts == {ChainScript, SelfStartScript}

NextNested ==
    \/ /\ "custom" \notin DOMAIN scripts
       /\ \E items \in NestedScripts : registerScript("custom", ArrayOf(items))
    \/ /\ nextUid < MaxNestStarts
       /\ ExecuteScript("custom", 0)
    \/ /\ nUpdates < MaxNestFrames
       /\ ControlsFrame(NoGamepad.connected, NoGamepad.axes, FrameMillis)

SpecNested == Init /\ [][NextNested]_vars

-----------------------------------------------------------------------------
(* Flight: the application as above, with the host choosing the control     *)
(* mode and the maximum thrust before App.init(), and a provider whose step  *)
(* can turn and move the drone and can hand back numbers that are not       *)
(* finite.                                                                  *)

ThrustSettings == {1, 2}

AtRest == FiniteOutcome(<<0, 0, 0>>, <<0, 0, 0>>)

\* finite outcomes: at rest, too fast, turned half round about the vertical
\* and moved, turned upside down
FiniteOutcomes ==
    { AtRest,
      FiniteOutcome(<<48, 64, 0>>, <<0, 12, -16>>),
      [FiniteOutcome(<<3, 0, 4>>, <<0, 0, 0>>) EXCEPT !.origin = <<2, 5, 0>>,
                                                      !.rotation = <<0, 1, 0, 0>>],
      [AtRest EXCEPT !.rotation = <<1, 0, 0, 0>>] }

\* outcomes with a component that is not finite: in the linear velocity, in
\* the angular velocity, in the position and the orientation
CorruptOutcomes ==
    { [AtRest EXCEPT !.lin = <<0, 3, 4>>, !.linKinds = <<"Infinity", "finite", "finite">>],
      [AtRest EXCEPT !.lin = <<3, 0, 4>>, !.linKinds = <<"finite", "NaN", "finite">>],
      [AtRest EXCEPT !.angKinds = <<"finite", "finite", "Infinity">>],
      [AtRest EXCEPT !.origin = <<2, 0, 0>>,
                     !.originKinds = <<"finite", "NaN", "finite">>,
                     !.rotationKinds = <<"finite", "finite", "finite", "Infinity">>] }

FlightOutcomes == FiniteOutcomes \cup CorruptOutcomes

\* a gamepad with the throttle axis at its upper end
FullThrottlePad == [connected |-> TRUE, axes |-> <<0, 0, 0, One>>]
FlightPads == {NoGamepad, FullThrottlePad}

\* new App() on a page that has loaded the Ammo script already
InitFlight ==
    /\ channels = ConstructorChannels
    /\ motorThrusts = [m \in MotorNames |-> HoverThrust]
    /\ keyStates = EmptyMap
    /\ connected = FALSE
    /\ axes = <<0, 0, 0, 0>>
    /\ activeScripts = <<>>
    /\ now = 0
    /\ registerDefaultScripts
    /\ History0
    /\ snapshot = NoSnapshot
    /\ physicsEngine = PhysicsConstructed
    /\ app = [phase |-> "constructed", initFailed |-> FALSE]
    /\ world = [Ammo |-> TRUE, listener |-> FALSE, drone |-> FALSE, retryPending |-> 0]
    /\ tick = NoTick

NextFlight ==
    \/ \E mode \in BOOLEAN, m \in ThrustSettings : HostSetsSettings(mode, m)
    \/ DroneMeshLoads
    \/ RetryTimer
    \/ \E o \in FlightOutcomes, g \in FlightPads : AppInit(g.connected, g.axes, 0, o)
    \/ /\ tick.n < MaxFlightTicks
       /\ \E o \in FlightOutcomes, g \in FlightPads :
            AnimationFrame(g.connected, g.axes, FrameTime, o)

SpecFlight == InitFlight /\ [][NextFlight]_vars

-----------------------------------------------------------------------------
(* Reading the history *)

Uids == 0 .. (nextUid - 1)
InstanceAtStart(u) == started[u + 1]
LogIndexes == 1 .. Len(log)
ActiveIndexes == 1 .. Len(activeScripts)

\* how often action idx of instance u has been executed so far
Count(u, idx) == Cardinality({k \in LogIndexes : log[k].uid = u /\ log[k].idx = idx})

IsActive(u) == \E i \in ActiveIndexes : activeScripts[i].uid = u
ActiveInstance(u) == activeScripts[CHOOSE i \in ActiveIndexes : activeScripts[i].uid = u]

\* the entry a log record is about
LoggedEntry(k) == InstanceAtStart(log[k].uid).actions[log[k].idx + 1]

AfterUpdate == last.op = "update"

-----------------------------------------------------------------------------
(* C2: a script [(0,a0),(1000,a1)] started by its key: updates below 1000 ms  *)
(* of elapsed time execute a0 exactly once and a1 never, the first update at  *)
(* 1000 ms or more executes a1 exactly once, and nothing is executed again.   *)
(* No action of any instance is ever executed more than once.                 *)

C2_TwoStepTimeline ==
    /\ \A u \in Uids : \A idx \in 0 .. (Len(InstanceAtStart(u).actions) - 1) :
            Count(u, idx) <= 1
    /\ \A u \in Uids : InstanceAtStart(u).actions = TwoStepScript =>
            /\ \A k \in LogIndexes :
                    (log[k].uid = u /\ log[k].idx = 1) => log[k].elapsed >= 1000
            /\ AfterUpdate =>
                    /\ Count(u, 0) = 1
                    /\ Count(u, 1) = IF now - InstanceAtStart(u).startTime >= 1000
                                     THEN 1 ELSE 0

\* a0 ran in one update, a later update below 1000 ms ran nothing, a1 ran in
\* a still later one, and one more update followed
C2_Witness ==
    \E u \in Uids : \E k0, k1 \in LogIndexes :
        /\ InstanceAtStart(u).actions = TwoStepScript
        /\ log[k0].uid = u /\ log[k0].idx = 0
        /\ log[k1].uid = u /\ log[k1].idx = 1
        /\ log[k0].upd + 1 < log[k1].upd
        /\ log[k1].upd < nUpdates
        /\ AfterUpdate

-----------------------------------------------------------------------------
(* C3: every press of a bound key appends a new instance with its own start  *)
(* time and cursor, whatever is already running, and every instance executes *)
(* each of its actions exactly once before it is removed.                    *)

C3_TwoPresses ==
    /\ ( /\ last.op = "onKeyDown"
         /\ Bound(scriptBindings, last.arg)
         /\ scriptBindings[last.arg] \in DOMAIN scripts )
       => /\ Len(activeScripts) >= 1
          /\ activeScripts[Len(activeScripts)] =
                NewInstance(scripts, scriptBindings[last.arg], now, nextUid - 1)
    /\ \A i, j \in ActiveIndexes : i < j => activeScripts[i].uid < activeScripts[j].uid
    /\ \A u \in Uids :
          LET n == Len(InstanceAtStart(u).actions)
          IN IF IsActive(u)
             THEN /\ ActiveInstance(u).startTime = InstanceAtStart(u).startTime
                  /\ ActiveInstance(u).actions = InstanceAtStart(u).actions
                  /\ \A idx \in 0 .. (n - 1) :
                        Count(u, idx) = IF idx < ActiveInstance(u).nextActionIndex
                                        THEN 1 ELSE 0
             ELSE \A idx \in 0 .. (n - 1) : Count(u, idx) = 1

\* two instances of the same script, started at different times by two
\* presses while the first was still running, both complete and removed
C3_Witness ==
    \E u1, u2 \in Uids :
        /\ u1 < u2
        /\ InstanceAtStart(u1).id = "custom" /\ InstanceAtStart(u2).id = "custom"
        /\ InstanceAtStart(u1).startTime < InstanceAtStart(u2).startTime
        /\ Len(InstanceAtStart(u1).actions) >= 2
        /\ ~IsActive(u1) /\ ~IsActive(u2)
        /\ \E k1, k2 \in LogIndexes :
              /\ k2 < k1
              /\ log[k1].uid = u1 /\ log[k1].idx = Len(InstanceAtStart(u1).actions) - 1
              /\ log[k2].uid = u2 /\ log[k2].idx = 0

-----------------------------------------------------------------------------
(* C8: a failing callback is caught inside update(): update does not raise,  *)
(* the cursor moves past the failed action, and the actions that follow it   *)
(* and those of the other instances are executed when due.                   *)

C8_FailureCaught ==
    AfterUpdate =>
        /\ ~raised
        /\ \A k \in LogIndexes : log[k].threw =>
              /\ Count(log[k].uid, log[k].idx) = 1
              /\ IsActive(log[k].uid) =>
                    ActiveInstance(log[k].uid).nextActionIndex > log[k].idx
        /\ \A i \in ActiveIndexes :
              LET inst == activeScripts[i]
              IN /\ inst.nextActionIndex < Len(inst.actions)
                 /\ ~Due(now - inst.startTime, inst.actions[inst.nextActionIndex + 1])
        /\ \A u \in Uids : ~IsActive(u) =>
              \A idx \in 0 .. (Len(InstanceAtStart(u).actions) - 1) : Count(u, idx) >= 1

\* a callback failed, the next action of the same instance ran in the same
\* update, so did an action of another instance, and the instance's last
\* action ran in a later update
C8_Witness ==
    \E k, k2, k3, k4 \in LogIndexes :
        /\ log[k].threw
        /\ k < k2 /\ log[k2].uid = log[k].uid /\ log[k2].idx = log[k].idx + 1
        /\ log[k2].upd = log[k].upd
        /\ k < k3 /\ log[k3].uid # log[k].uid /\ log[k3].upd = log[k].upd
        /\ log[k4].uid = log[k].uid /\ log[k4].upd > log[k].upd
        /\ AfterUpdate

-----------------------------------------------------------------------------
(* C9: after every update no active instance is left with an unexecuted      *)
(* action whose offset is <= the elapsed time, whatever the order of the      *)
(* offsets in the definition.                                                *)

C9_AllDueExecuted ==
    AfterUpdate =>
        \A i \in ActiveIndexes :
            LET inst == activeScripts[i]
            IN \A j \in (inst.nextActionIndex + 1) .. Len(inst.actions) :
                  ~(inst.actions[j].time <= now - inst.startTime)

-----------------------------------------------------------------------------
(* C10: within one update the instances are processed in the order they were *)
(* started, each firing all its due actions before the next one, so that of   *)
(* two writes to one channel in the same update the later-started instance's  *)
(* write is the one that stays.                                               *)

WritesIn(c, upd) ==
    {k \in LogIndexes : /\ log[k].upd = upd
                        /\ ~log[k].threw
                        /\ LoggedEntry(k).op = "set"
                        /\ LoggedEntry(k).target = c}

LastWriter(W) ==
    CHOOSE k \in W : \A k2 \in W :
        \/ log[k2].uid < log[k].uid
        \/ (log[k2].uid = log[k].uid /\ log[k2].idx <= log[k].idx)

C10_StartOrder ==
    /\ \A i, j \in ActiveIndexes : i < j =>
          /\ activeScripts[i].uid < activeScripts[j].uid
          /\ activeScripts[i].startTime <= activeScripts[j].startTime
    /\ \A k1, k2 \in LogIndexes : (k1 < k2 /\ log[k1].upd = log[k2].upd) =>
          \/ log[k1].uid < log[k2].uid
          \/ (log[k1].uid = log[k2].uid /\ log[k1].idx < log[k2].idx)
    /\ AfterUpdate =>
          \A c \in ChannelNames \cup MotorNames :
              WritesIn(c, nUpdates) # {} =>
                  LoggedEntry(LastWriter(WritesIn(c, nUpdates))).value =
                      IF c \in ChannelNames THEN channels[c] ELSE motorThrusts[c]

\* two instances wrote different values to the same channel in the update
\* that has just run
C10_Witness ==
    /\ AfterUpdate
    /\ \E c \in ChannelNames : \E k1, k2 \in WritesIn(c, nUpdates) :
          /\ log[k1].uid < log[k2].uid
          /\ LoggedEntry(k1).value # LoggedEntry(k2).value

-----------------------------------------------------------------------------
(* C1: roll, pitch and yaw are in [-1,1], throttle and the four motor        *)
(* thrusts are in [0,1], in every state, updates that ran script actions     *)
(* included.                                                                 *)

C1_ValuesInRange ==
    /\ \A c \in {"roll", "pitch", "yaw"} : -One <= channels[c] /\ channels[c] <= One
    /\ 0 <= channels.throttle /\ channels.throttle <= One
    /\ \A m \in MotorNames : 0 <= motorThrusts[m] /\ motorThrusts[m] <= One

-----------------------------------------------------------------------------
(* C6: centering in keyboard mode *)

AxisKeys(axis) ==
    CASE axis = "yaw" -> {"KeyA", "KeyD"}
      [] axis = "pitch" -> {"ArrowRight", "ArrowLeft"}
      [] axis = "roll" -> {"ArrowDown", "ArrowUp"}
      [] axis = "throttle" -> {"KeyW", "KeyX"}

NoKeyHeld(axis) == \A k \in AxisKeys(axis) : ~Pressed(keyStates, k)

\* this step is an update() taken in keyboard mode
KeyboardUpdateStep == nUpdates' = nUpdates + 1 /\ ~connected'

\* a script action of the update this step takes writes the axis
ScriptWrites(axis) == (WritesIn(axis, nUpdates) # {})'

\* from old to new is a move toward 0 of at most the centering step, not
\* across 0, and none at all from 0
CenterStep(old, new) ==
    /\ old >= 0 => (0 <= new /\ new <= old)
    /\ old <= 0 => (old <= new /\ new <= 0)
    /\ old - new <= CenterRate /\ new - old <= CenterRate

\* C6 as stated: on every keyboard-mode update in which none of an axis's
\* keys is held, the axis makes a centering step
C6_CenteringOnEveryUpdate ==
    [][ KeyboardUpdateStep =>
            \A axis \in ChannelNames :
                NoKeyHeld(axis) => CenterStep(channels[axis], channels'[axis]) ]_vars

\* C6 as amended: on every keyboard-mode update in which none of an axis's
\* keys is held and no script action writes the axis, the axis makes a
\* centering step; a throttle below 0 (only a script can leave one) goes
\* to 0 at once
C6_Centering ==
    [][ KeyboardUpdateStep =>
            \A axis \in ChannelNames :
                (NoKeyHeld(axis) /\ ~ScriptWrites(axis)) =>
                    IF axis = "throttle" /\ channels.throttle < 0
                    THEN channels'.throttle = 0
                    ELSE CenterStep(channels[axis], channels'[axis]) ]_vars

\* the keyboard-mode update after a gamepad reading: no key held, no script,
\* all four axes one centering step closer to 0 than the gamepad left them
C6_Witness ==
    /\ AfterUpdate /\ ~connected
    /\ \A axis \in ChannelNames : NoKeyHeld(axis) /\ WritesIn(axis, nUpdates) = {}
    /\ channels = [roll |-> One - CenterRate, pitch |-> CenterRate - One,
                   yaw |-> Half - CenterRate, throttle |-> Half - CenterRate]

-----------------------------------------------------------------------------
(* C7: left alone, the engine brings roll, pitch, yaw and throttle to 0 and  *)
(* keeps them there; from the constructor's state the throttle is 0 after at *)
(* most 100 updates.                                                         *)

AllCentered == channels = [roll |-> 0, pitch |-> 0, yaw |-> 0, throttle |-> 0]

AtConstructorChannels == channels = ConstructorChannels

C7_SettlesAtZero ==
    /\ <>[]AllCentered
    /\ AtConstructorChannels => [](nUpdates >= 100 => channels.throttle = 0)

\* the state 100 updates after the start, all channels at 0 (the run from the
\* constructor's state passes through it)
C7_Witness ==
    /\ AllCentered
    /\ nUpdates = 100
    /\ AfterUpdate

-----------------------------------------------------------------------------
(* C4: registerScript with something that is not an array, or with an array  *)
(* holding an entry without a numeric offset or without a callable mutation   *)
(* (an entry that is no object included), reports the failure, does not       *)
(* raise, and leaves the registration table as it was.                        *)

EntryIsWellFormed(e) == e.kind = "object" /\ e.timeIsNumber /\ e.actionIsFunction

Malformed(sa) ==
    \/ ~sa.isArray
    \/ \E i \in 1 .. Len(sa.items) : ~EntryIsWellFormed(sa.items[i])

C4_RejectsMalformed ==
    [][ \A id \in RegisterIds, sa \in RegisterArgs :
            (Malformed(sa) /\ registerScript(id, sa)) =>
                /\ ~raised'
                /\ reported' = "error"
                /\ scripts' = scripts ]_vars

-----------------------------------------------------------------------------
(* C5: bindKeyToScript with a script id that is not in the registration      *)
(* table does not raise, reports the failure and changes neither the binding  *)
(* table nor anything else.                                                   *)

C5_RejectsUnknownScript ==
    [][ \A k \in BindKeys, id \in BindIds :
            (id \notin DOMAIN scripts /\ bindKeyToScript(k, id)) =>
                /\ ~raised'
                /\ reported' = "error"
                /\ scriptBindings' = scriptBindings
                /\ UNCHANGED <<channels, motorThrusts, keyStates, scripts,
                               activeScripts>> ]_vars

-----------------------------------------------------------------------------
(* C11: every instance that is started is eventually removed from the active *)
(* set, having executed each of its actions, as long as update() keeps being  *)
(* called while the clock advances; for every definition registerScript       *)
(* accepts.                                                                   *)

Completed(u) ==
    /\ u < nextUid
    /\ ~IsActive(u)
    /\ \A idx \in 0 .. (Len(InstanceAtStart(u).actions) - 1) : Count(u, idx) = 1

-----------------------------------------------------------------------------
(* C12: a running instance keeps the action list it was started with:       *)
(* registering its script id again changes neither the actions it still      *)
(* executes nor its cursor, and only the instances started afterwards use    *)
(* the new list.                                                             *)

\* every running instance has the list and start time it was started with,
\* and the values the last update left are those its actions wrote
KeepsCapturedActions ==
    /\ \A u \in Uids : IsActive(u) =>
            /\ ActiveInstance(u).actions = InstanceAtStart(u).actions
            /\ ActiveInstance(u).startTime = InstanceAtStart(u).startTime
    /\ AfterUpdate =>
            \A c \in ChannelNames :
                WritesIn(c, nUpdates) # {} =>
                    LoggedEntry(LastWriter(WritesIn(c, nUpdates))).value = channels[c]
    /\ (last.op = "executeScript" /\ last.arg \in DOMAIN scripts) =>
            activeScripts[Len(activeScripts)].actions = scripts[last.arg]

C12_CapturedActions ==
    [][ /\ KeepsCapturedActions'
        /\ \A items \in ReregisterScripts :
                registerScript("custom", ArrayOf(items)) =>
                    activeScripts' = activeScripts ]_vars

\* "custom" was registered again while an instance of it was running; the
\* instance has since executed its second action, from the list it was
\* started with, and an instance started after it runs the new list
C12_Witness ==
    /\ AfterUpdate
    /\ \E u1, u2 \in Uids :
          /\ u1 < u2
          /\ InstanceAtStart(u1).actions # scripts["custom"]
          /\ InstanceAtStart(u2).actions = scripts["custom"]
          /\ IsActive(u2)
          /\ \E k \in LogIndexes :
                log[k].uid = u1 /\ log[k].idx = 1 /\ log[k].upd = nUpdates

-----------------------------------------------------------------------------
(* C13: the channel update takes its input from one source. With a gamepad   *)
(* connected it leaves roll, pitch and yaw equal to the first three axes and  *)
(* throttle equal to (axis4 + 1)/2, whatever the channels were and whatever   *)
(* keys are held, and leaves the motor thrusts alone; with none connected it  *)
(* is the keyboard path and nothing else.                                     *)

FromGamepad(ch, ax) ==
    /\ ch.roll = ax[1]
    /\ ch.pitch = ax[2]
    /\ ch.yaw = ax[3]
    /\ 2 * ch.throttle = ax[4] + One

C13_InputSource ==
    /\ \A ax \in AxisSamples :
          LET r == updateControlChannels(channels, motorThrusts, keyStates, TRUE, ax)
          IN FromGamepad(r.ch, ax) /\ r.mt = motorThrusts
    /\ \A ax \in AxisSamples :
          updateControlChannels(channels, motorThrusts, keyStates, FALSE, ax)
              = updateKeyboardControls(channels, motorThrusts, keyStates)
    /\ (AfterUpdate /\ connected /\ \A c \in ChannelNames : WritesIn(c, nUpdates) = {})
          => FromGamepad(channels, axes)

\* an update with the gamepad connected, a yaw key and a throttle key held,
\* no script action: the channels are the axis values
C13_Witness ==
    /\ AfterUpdate /\ connected
    /\ Pressed(keyStates, "KeyD") /\ Pressed(keyStates, "KeyX")
    /\ \A c \in ChannelNames : WritesIn(c, nUpdates) = {}
    /\ nUpdates >= 2
    /\ FromGamepad(channels, axes)

-----------------------------------------------------------------------------
(* C14: the motor thrusts in keyboard mode *)

MotorKey(m) ==
    CASE m = "motor1" -> "Digit1"
      [] m = "motor2" -> "Digit2"
      [] m = "motor3" -> "Digit3"
      [] m = "motor4" -> "Digit4"

\* the thrust one rate step up (key held) or down (key not held), within [0,1]
MotorExpected(old, held) ==
    IF held THEN Min(One, Max(0, old + controlRate))
    ELSE Min(One, Max(0, old - controlRate))

\* no digit key has been pressed so far (a key is in keyStates from its
\* first key event on)
NoDigitEver == \A m \in MotorNames : MotorKey(m) \notin DOMAIN keyStates

NoMotorWritten == \A k \in LogIndexes : LoggedEntry(k).target \notin MotorNames

AllMotorsOff == \A m \in MotorNames : motorThrusts[m] = 0

\* C14 as stated: on every keyboard-mode update each motor thrust goes one
\* rate step up if its digit key is held and one rate step down otherwise,
\* clamped to [0,1]; with no digit key ever held all thrusts are 0 from the
\* second update on
C14_MotorRateOnEveryUpdate ==
    [][ /\ KeyboardUpdateStep =>
              \A m \in MotorNames :
                  motorThrusts'[m] =
                      MotorExpected(motorThrusts[m], Pressed(keyStates, MotorKey(m)))
        /\ (NoDigitEver /\ ~connected /\ nUpdates >= 2)' => AllMotorsOff' ]_vars

\* C14 as amended: the same for every motor that no script action of the
\* update writes, and all thrusts are 0 from the second update on when no
\* digit key has been held and no script action has written a motor
C14_MotorRate ==
    [][ /\ KeyboardUpdateStep =>
              \A m \in MotorNames :
                  ~ScriptWrites(m) =>
                      motorThrusts'[m] =
                          MotorExpected(motorThrusts[m], Pressed(keyStates, MotorKey(m)))
        /\ (NoDigitEver /\ ~connected /\ nUpdates >= 2 /\ NoMotorWritten)'
              => AllMotorsOff' ]_vars

\* Digit1 went down after the second update, when all thrusts were 0, and
\* the third update has run: motor1 is one rate step up, the others still 0
C14_Witness ==
    /\ AfterUpdate /\ ~connected
    /\ nUpdates = 3
    /\ NoMotorWritten
    /\ Pressed(keyStates, "Digit1")
    /\ motorThrusts = [motor1 |-> controlRate, motor2 |-> 0, motor3 |-> 0, motor4 |-> 0]

-----------------------------------------------------------------------------
(* C16: getControlInputs() returns the current channel and motor thrust      *)
(* values and changes nothing in the engine; the object returned is apart    *)
(* from the engine: updates that follow do not change it, and writing to it   *)
(* changes neither the channels nor the motor thrusts.                        *)

\* the values a caller reads from the object it holds
SnapshotValues ==
    [roll |-> snapshot.value.roll, pitch |-> snapshot.value.pitch,
     yaw |-> snapshot.value.yaw, throttle |-> snapshot.value.throttle,
     motorThrusts |-> snapshot.value.motorThrusts]

\* the values of the engine, laid out as getControlInputs lays them out
EngineValues ==
    [roll |-> channels.roll, pitch |-> channels.pitch, yaw |-> channels.yaw,
     throttle |-> channels.throttle, motorThrusts |-> motorThrusts]

C16_SnapshotDecoupled ==
    [][ /\ last'.op = "getControlInputs" =>
              /\ SnapshotValues' = EngineValues
              /\ ~raised'
              /\ UNCHANGED <<channels, motorThrusts, keyStates, scripts, scriptBindings,
                             activeScripts>>
        /\ (snapshot.held /\ last'.op \notin {"getControlInputs", "writeSnapshot"}) =>
              SnapshotValues' = SnapshotValues
        /\ last'.op = "writeSnapshot" => UNCHANGED <<channels, motorThrusts>> ]_vars

\* the host holds a snapshot taken before the last update and has written
\* to it: it differs from the engine's values in a motor thrust the update
\* changed and in what the host wrote
C16_Witness ==
    /\ AfterUpdate
    /\ snapshot.held
    /\ snapshot.value.motorThrusts.motor1 = HoverThrust
    /\ snapshot.value.motorThrusts.motor2 = One
    /\ snapshot.value.roll = One
    /\ motorThrusts.motor1 # HoverThrust
    /\ motorThrusts.motor2 # One
    /\ channels.roll = 0

-----------------------------------------------------------------------------
(* C15: the keyed channels in keyboard mode *)

\* the documented direction of each key
KeyDirection(key) ==
    CASE key \in {"KeyD", "ArrowRight", "ArrowUp", "KeyW"} -> 1
      [] key \in {"KeyA", "ArrowLeft", "ArrowDown", "KeyX"} -> -1

\* the two keys of an axis, in the order update reads them
KeyOrder(axis) ==
    CASE axis = "yaw" -> <<"KeyA", "KeyD">>
      [] axis = "pitch" -> <<"ArrowRight", "ArrowLeft">>
      [] axis = "roll" -> <<"ArrowDown", "ArrowUp">>
      [] axis = "throttle" -> <<"KeyW", "KeyX">>

AxisFloor(axis) == IF axis = "throttle" THEN 0 ELSE -One

\* old changed by the control rate in the key's direction, then clamped
KeyStepValue(axis, old, key) ==
    Min(One, Max(AxisFloor(axis), old + KeyDirection(key) * controlRate))

\* the value of an axis after the steps of those of its keys that are held
KeyedValue(axis, old, ks) ==
    LET v1 == IF Pressed(ks, KeyOrder(axis)[1])
              THEN KeyStepValue(axis, old, KeyOrder(axis)[1]) ELSE old
    IN IF Pressed(ks, KeyOrder(axis)[2])
       THEN KeyStepValue(axis, v1, KeyOrder(axis)[2]) ELSE v1

\* the keyboard path on the current channels with exactly the keys of held
\* down: every axis with a key in held has the value the key steps give
KeyboardPathSteps ==
    \A axis \in ChannelNames : \A held \in (SUBSET AxisKeys(axis)) \ {{}} :
        LET ks == [k \in held |-> TRUE]
        IN updateKeyboardControls(channels, motorThrusts, ks).ch[axis]
               = KeyedValue(axis, channels[axis], ks)

\* C15 as stated: on every keyboard-mode update an axis with a key held has
\* its previous value changed by the control rate in the key's direction
\* and clamped, with no centering step
C15_KeyStepOnEveryUpdate ==
    [][ /\ KeyboardPathSteps
        /\ KeyboardUpdateStep =>
              \A axis \in ChannelNames :
                  ~NoKeyHeld(axis) =>
                      channels'[axis] = KeyedValue(axis, channels[axis], keyStates) ]_vars

\* C15 as amended: the same for every axis that no script action of the
\* update writes
C15_KeyStep ==
    [][ /\ KeyboardPathSteps
        /\ KeyboardUpdateStep =>
              \A axis \in ChannelNames :
                  (~NoKeyHeld(axis) /\ ~ScriptWrites(axis)) =>
                      channels'[axis] = KeyedValue(axis, channels[axis], keyStates) ]_vars

\* three keyboard updates with D and X held from the start and no script:
\* yaw is at its upper bound (0.4, 0.8, then 1.2 clamped to 1), throttle at
\* its lower bound (0.1, then clamped to 0)
C15_Witness ==
    /\ AfterUpdate /\ ~connected
    /\ nUpdates = 3
    /\ Len(log) = 0
    /\ Pressed(keyStates, "KeyD") /\ Pressed(keyStates, "KeyX")
    /\ channels.yaw = One
    /\ channels.throttle = 0

-----------------------------------------------------------------------------
(* Reading the history of a frame *)

CallIndexes == 1 .. Len(tick.calls)
Called(op) == \E i \in CallIndexes : tick.calls[i].op = op

\* every call of op1 in the frame comes before every call of op2
AllBefore(op1, op2) ==
    \A i, j \in CallIndexes :
        (tick.calls[i].op = op1 /\ tick.calls[j].op = op2) => i < j

ForceCalls == {"applyCentralForce:drag", "applyCentralForce:lift",
               "applyCentralForce:thrust", "applyTorque", "applyForce"}
ReadbackCalls == {"getWorldTransform", "getLinearVelocity", "getAngularVelocity"}
LimitCalls == {"getLinearVelocity", "setLinearVelocity",
               "getAngularVelocity", "setAngularVelocity"}

-----------------------------------------------------------------------------
(* C17: after the velocity limit of a frame every tracked body's linear      *)
(* velocity has magnitude at most maxVelocity and its angular velocity at     *)
(* most maxAngularVelocity; a velocity above the cap has become one of        *)
(* exactly the cap's magnitude in the same direction, a velocity within the   *)
(* cap is as the step left it.                                                *)

SameDirection(a, b) == Cross(a, b) = <<0, 0, 0>> /\ Dot(a, b) > 0

Limited(got, read, cap) ==
    /\ Dot(got, got) <= cap * cap
    /\ Dot(read, read) <= cap * cap => got = read
    /\ Dot(read, read) > cap * cap =>
          Dot(got, got) = cap * cap /\ SameDirection(got, read)

-----------------------------------------------------------------------------
(* C18: a frame that steps the provider steps it once and, after the step,   *)
(* reads and limits the linear and the angular velocity of every tracked     *)
(* body.                                                                     *)

C18_LimitAfterEveryStep ==
    Called("stepSimulation") =>
        /\ Cardinality({i \in CallIndexes : tick.calls[i].op = "stepSimulation"}) = 1
        /\ \A b \in 1 .. tick.tracked :
              \E i, j, k \in CallIndexes :
                  /\ i < j /\ j < k
                  /\ tick.calls[i] = Call("stepSimulation", 0)
                  /\ tick.calls[j] = Call("getLinearVelocity", b)
                  /\ tick.calls[k] = Call("getAngularVelocity", b)
        /\ \A b \in 1 .. tick.tracked :
              /\ Length(physicsEngine.rigidBodies[b].lin) <= maxVelocity
              /\ Length(physicsEngine.rigidBodies[b].ang) <= maxAngularVelocity

\* a frame with the drone tracked in which forces were applied and both
\* velocities had to be cut
C18_Witness ==
    /\ tick.tracked = 1
    /\ Called("stepSimulation") /\ Called("applyTorque")
    /\ Called("setLinearVelocity") /\ Called("setAngularVelocity")
    /\ tick.n >= 2

-----------------------------------------------------------------------------
(* C19: in every frame the control engine's update comes first, then the     *)
(* mapper reads the control inputs that update produced and applies the      *)
(* forces, then the provider steps, then transform and velocities are read   *)
(* back and limited, then the mesh is synced.                                *)

C19_TickOrder ==
    (tick.n > 0 /\ Called("stepSimulation") /\ Called("getControlInputs")) =>
        /\ AllBefore("controls.update", "getControlInputs")
        /\ \A f \in ForceCalls : AllBefore("getControlInputs", f)
        /\ \A f \in ForceCalls : AllBefore(f, "stepSimulation")
        /\ \A r \in ReadbackCalls : AllBefore("stepSimulation", r)
        /\ \A l \in LimitCalls : AllBefore(l, "meshSet")
        /\ tick.inputs = getControlInputs(channels, motorThrusts)

-----------------------------------------------------------------------------
(* C20: when the physics backend fails to initialize the application does    *)
(* not go on to run; no frame steps the provider, applies a force or reads a *)
(* body back without a physics world, and no force is applied before the     *)
(* drone's rigid body exists.                                                *)

C20_NoTickWithoutProvider ==
    /\ app.initFailed => (app.phase # "running" /\ tick.n = 0)
    /\ ~physicsEngine.physicsWorld => tick.calls \in {<< >>,
            << Call("controls.update", 0), Call("render", 0) >>}
    /\ ~physicsEngine.droneRigidBody => \A f \in ForceCalls : ~Called(f)
    /\ (physicsEngine.physicsWorld \/ physicsEngine.droneRigidBody)
          => physicsEngine.Ammo /\ physicsEngine.tmpTransformation

\* the guards of update(): nothing is done without a world, no force is
\* applied without a drone body
ProviderGuardsHold ==
    /\ ~physicsEngine.physicsWorld => tick.calls \in {<< >>,
            << Call("controls.update", 0), Call("render", 0) >>}
    /\ ~physicsEngine.droneRigidBody => \A f \in ForceCalls : ~Called(f)

-----------------------------------------------------------------------------
(* C24: in every state the binding table maps a key to one script id and     *)
(* every bound script id is in the registration table; binding a key that is *)
(* already bound replaces its binding and leaves the bindings of the other   *)
(* keys as they were.                                                        *)

BindingsRegistered ==
    \A k \in DOMAIN scriptBindings : scriptBindings[k] \in DOMAIN scripts

C24_BindingTable ==
    [][ /\ BindingsRegistered'
        /\ \A k \in BindKeys, id \in BindIds :
              (id \in DOMAIN scripts /\ bindKeyToScript(k, id)) =>
                  /\ scriptBindings'[k] = id
                  /\ \A k2 \in DOMAIN scriptBindings :
                        k2 # k => scriptBindings'[k2] = scriptBindings[k2] ]_vars

-----------------------------------------------------------------------------
(* C28: an instance started by executeScript for a registered id stays in    *)
(* the active set until all of its actions have been executed, whether       *)
(* executeScript is called by the host or from inside a script action while  *)
(* update() is going through the active set.                                 *)

AllExecuted(u) ==
    \A idx \in 0 .. (Len(InstanceAtStart(u).actions) - 1) : Count(u, idx) >= 1

C28_StartedStaysActive ==
    \A u \in Uids : IsActive(u) \/ AllExecuted(u)

-----------------------------------------------------------------------------
(* C25: update() ends within the call: the cursor of an instance goes up by  *)
(* one with every action the instance executes and never passes the length   *)
(* of its action list, so an update executes no more actions than the active *)
(* instances had left when it began, and it does not raise.                  *)

\* this step is an update()
UpdateStep == nUpdates' = nUpdates + 1

\* the actions the instances of list have not executed yet
RECURSIVE RemainingActions(_, _)
RemainingActions(list, i) ==
    IF i > Len(list) THEN 0
    ELSE Len(list[i].actions) - list[i].nextActionIndex + RemainingActions(list, i + 1)

\* the number of actions instance u executed in update number upd
ExecutedIn(u, upd) ==
    Cardinality({k \in LogIndexes : log[k].uid = u /\ log[k].upd = upd})

\* the cursor of instance u: where it stands in the active set, or, once the
\* instance has been removed, the length of its list
CursorOf(u) ==
    IF IsActive(u) THEN ActiveInstance(u).nextActionIndex
    ELSE Len(InstanceAtStart(u).actions)

C25_UpdateReturns ==
    [][ UpdateStep =>
            /\ ~raised'
            /\ Len(log') - Len(log) <= RemainingActions(activeScripts, 1)
            /\ \A u \in Uids : IsActive(u) =>
                  /\ CursorOf(u)' = CursorOf(u) + ExecutedIn(u, nUpdates)'
                  /\ CursorOf(u)' <= Len(InstanceAtStart(u).actions)
            /\ \A u \in Uids : ~IsActive(u) => ExecutedIn(u, nUpdates)' = 0 ]_vars

\* an update in which a script started itself from its callback has
\* returned, and a later update has executed a failing callback and returned
C25_Witness ==
    /\ AfterUpdate
    /\ \E u1, u2 \in Uids :
          /\ u1 < u2
          /\ InstanceAtStart(u1).actions = SelfStartScript
          /\ InstanceAtStart(u2).actions = SelfStartScript
          /\ InstanceAtStart(u2).startTime > InstanceAtStart(u1).startTime
    /\ \E k \in LogIndexes : log[k].threw /\ log[k].upd = nUpdates

-----------------------------------------------------------------------------
(* C27: an instance leaves the active set in the update in which its cursor  *)
(* reaches the end of its action list and in no other step; after every      *)
(* update every instance in the active set has its cursor below the length   *)
(* of its list, and the instances that stay keep their order.                *)

\* where instance u stands in the active set
PositionOf(u) == CHOOSE i \in ActiveIndexes : activeScripts[i].uid = u

-----------------------------------------------------------------------------
(* C26: an instance executes its actions in the order of registration,       *)
(* whatever their offsets: action i+1 is never executed before action i, and *)
(* an action whose offset has been reached waits as long as an action         *)
(* registered before it has not fired.                                       *)

\* the log records of instance u before record k
EarlierOf(u, k) == {k2 \in LogIndexes : k2 < k /\ log[k2].uid = u}

-----------------------------------------------------------------------------
(* C29: once a key-up for a key has been processed and no key-down for it    *)
(* has followed, the key is not recorded as pressed, whatever key-down,      *)
(* key-up and bindKeyToScript calls came before, a binding of the key while  *)
(* it was held included.                                                     *)

C29_KeyUpReleases ==
    [][ /\ \A k \in BindKeys : onKeyUp(k) => ~Pressed(keyStates', k)
        /\ \A k \in BindKeys :
              (~Pressed(keyStates, k) /\ Pressed(keyStates', k)) =>
                  (last'.op = "onKeyDown" /\ last'.arg = k) ]_vars

-----------------------------------------------------------------------------
(* C30: in an update the script actions run after the gamepad or keyboard    *)
(* processing and the centering, so the value a script action writes to a    *)
(* channel or motor is the value getControlInputs() returns right after the  *)
(* update; in the updates that follow the value is input to the usual        *)
(* processing: centering, key steps and motor steps in keyboard mode, the    *)
(* axis values in gamepad mode.                                              *)

\* what getControlInputs() returns for a channel or a motor
ReturnedFor(c) ==
    IF c \in ChannelNames
    THEN getControlInputs(channels, motorThrusts)[c]
    ELSE getControlInputs(channels, motorThrusts).motorThrusts[c]

\* the value the last script action of the last update wrote to c
ScriptValue(c) == LoggedEntry(LastWriter(WritesIn(c, nUpdates))).value

\* the value a connected gamepad with axes ax gives a channel
AxisValue(c, ax) ==
    CASE c = "roll" -> ax[1]
      [] c = "pitch" -> ax[2]
      [] c = "yaw" -> ax[3]
      [] c = "throttle" -> (ax[4] + One) \div 2

\* from old to new is what input processing makes of a channel or motor
\* value in the update this step takes
InputProcessed(c, old, new) ==
    IF c \in MotorNames
    THEN IF connected' THEN new = old
         ELSE new = MotorExpected(old, Pressed(keyStates, MotorKey(c)))
    ELSE IF connected' THEN new = AxisValue(c, axes')
         ELSE IF ~NoKeyHeld(c) THEN new = KeyedValue(c, old, keyStates)
         ELSE IF c = "throttle" /\ old < 0 THEN new = 0
         ELSE CenterStep(old, new) /\ (old # 0 => new # old)

C30_ScriptsAfterInput ==
    [][ UpdateStep =>
          \A c \in ChannelNames \cup MotorNames :
              /\ ScriptWrites(c) => ReturnedFor(c)' = ScriptValue(c)'
              /\ (AfterUpdate /\ WritesIn(c, nUpdates) # {} /\ ~ScriptWrites(c)) =>
                    InputProcessed(c, ScriptValue(c), ReturnedFor(c)') ]_vars

\* the yawSpin script set yaw to 0.2 in the update before the last one; the
\* last update, in keyboard mode with no yaw key held and no script action,
\* has moved it one centering step toward 0
C30_Witness ==
    /\ AfterUpdate /\ ~connected
    /\ NoKeyHeld("yaw")
    /\ WritesIn("yaw", nUpdates) = {}
    /\ \E k \in WritesIn("yaw", nUpdates - 1) : LoggedEntry(k).value = YawSpinRate
    /\ channels.yaw = YawSpinRate - CenterRate

-----------------------------------------------------------------------------
(* Reading the forces of a frame *)

ForceIndexes == 1 .. Len(tick.forces)

\* the sum of the force vectors of the frame's calls of op
RECURSIVE SumOfForces(_, _)
SumOfForces(op, i) ==
    IF i > Len(tick.forces) THEN <<0, 0, 0>>
    ELSE LET rest == SumOfForces(op, i + 1)
         IN IF tick.forces[i].op = op
            THEN [k \in 1 .. 3 |-> tick.forces[i].vec[k] + rest[k]]
            ELSE rest

\* the drone's up axis was the world's when the frame applied its forces
ZeroTilt ==
    /\ Len(tick.read) >= 1
    /\ \A i \in 1 .. 4 : isFinite(tick.read[1].rotationKinds[i])
    /\ applyQuaternion(<<0, 1, 0>>, tick.read[1].rotation) = <<0, 1, 0>>

\* the control mode the frame applied its forces in
ModeOfTick ==
    IF Called("applyForce") THEN "per-motor"
    ELSE IF Called("applyCentralForce:thrust") THEN "unified"
    ELSE "none"

-----------------------------------------------------------------------------
(* C22: with zero tilt, unified mode with throttle = 1 and maxThrust = M     *)
(* applies a central force of exactly M along world-up, and per-motor mode   *)
(* with all four motor thrusts = 0.6125 and the same M applies forces whose  *)
(* sum is that same force.                                                   *)

\* a force of M newtons along world-up, in units of 0.0025 N
TrimForce == <<0, One * physicsEngine.settings.maxThrust, 0>>

C22_SameNetForce ==
    /\ (ModeOfTick = "unified" /\ ZeroTilt /\ tick.inputs.throttle = One) =>
          /\ Cardinality({i \in ForceIndexes :
                            tick.forces[i].op = "applyCentralForce:thrust"}) = 1
          /\ SumOfForces("applyCentralForce:thrust", 1) = TrimForce
    /\ (ModeOfTick = "per-motor" /\ ZeroTilt
          /\ \A m \in MotorNames : tick.inputs.motorThrusts[m] = HoverThrust) =>
          SumOfForces("applyForce", 1) = TrimForce

\* the unified half of C22 alone
UnifiedTrim ==
    (ModeOfTick = "unified" /\ ZeroTilt /\ tick.inputs.throttle = One) =>
          SumOfForces("applyCentralForce:thrust", 1) = TrimForce

-----------------------------------------------------------------------------
(* C23: the control mode is fixed when the engine is set up: no operation of *)
(* the control engine, the script engine or the mapper changes the flag, so  *)
(* all frames of a run apply their forces in the same mode.                  *)

C23_ModeFixed ==
    [][ /\ physicsEngine'.settings # physicsEngine.settings =>
              /\ app.phase = "constructed" /\ app'.phase = "constructed"
              /\ tick' = tick /\ tick.n = 0
              /\ UNCHANGED <<channels, motorThrusts, keyStates, scripts, scriptBindings,
                             activeScripts, last>>
        /\ ModeOfTick' # "none" =>
              ModeOfTick' = IF physicsEngine.settings.useIndividualMotors
                            THEN "per-motor" ELSE "unified"
        /\ (ModeOfTick # "none" /\ ModeOfTick' # "none") => ModeOfTick' = ModeOfTick ]_vars

\* the second frame of a run set up in per-motor mode, after an update that
\* took the throttle from the gamepad: four forces at the motors again
C23_Witness ==
    /\ tick.n = 2
    /\ physicsEngine.settings.useIndividualMotors
    /\ ModeOfTick = "per-motor"
    /\ tick.inputs.throttle = One
    /\ Len(tick.forces) = 4

-----------------------------------------------------------------------------
(* C21: when a component read back from the provider is not finite, the last *)
(* good value of that component is used in its place and the frame goes on:  *)
(* for position and orientation and for linear and angular velocity, so that *)
(* no value that is not finite is written to the mesh or left in or written  *)
(* back to the body.                                                         *)

\* this step is an animation frame
FrameStep == tick'.n = tick.n + 1

\* tracked body b as it was before the frame (a body made in the frame's own
\* step starts as createDronePhysics makes it)
BodyBefore(b) ==
    IF b <= Len(physicsEngine.rigidBodies) THEN physicsEngine.rigidBodies[b] ELSE NewBody

\* new is old where the component read is not finite, and is finite
Substituted(new, newKinds, old, kinds) ==
    \A i \in DOMAIN kinds :
        /\ isFinite(newKinds[i])
        /\ ~isFinite(kinds[i]) => new[i] = old[i]

\* the mesh half of C21
MeshKeepsLastGood ==
    [][ FrameStep =>
          \A b \in 1 .. Len(tick'.read) :
              LET read == tick'.read[b]
                  body == physicsEngine'.rigidBodies[b]
              IN /\ Substituted(body.mesh.position, body.mesh.positionKinds,
                                BodyBefore(b).mesh.position, read.originKinds)
                 /\ Substituted(body.mesh.quaternion, body.mesh.quaternionKinds,
                                BodyBefore(b).mesh.quaternion, read.rotationKinds) ]_vars

C21_NonFiniteSubstituted ==
    [][ FrameStep =>
          \A b \in 1 .. Len(tick'.read) :
              LET read == tick'.read[b]
                  body == physicsEngine'.rigidBodies[b]
              IN /\ Substituted(body.mesh.position, body.mesh.positionKinds,
                                BodyBefore(b).mesh.position, read.originKinds)
                 /\ Substituted(body.mesh.quaternion, body.mesh.quaternionKinds,
                                BodyBefore(b).mesh.quaternion, read.rotationKinds)
                 /\ Substituted(body.lin, body.linKinds, BodyBefore(b).lin, read.linKinds)
                 /\ Substituted(body.ang, body.angKinds, BodyBefore(b).ang, read.angKinds)
                 /\ Called("render")' ]_vars

-----------------------------------------------------------------------------
(* C31: a key-down of a key bound to a script appends one new instance, with *)
(* cursor 0 and the time of the key-down as its start time, to the end of    *)
(* the active set and leaves key state, channels, motor thrusts, scripts and *)
(* bindings as they were; a key-down of an unbound key sets that key's       *)
(* pressed flag and nothing else, the active set stays as it was.            *)

\* this step is a key-down of key
KeyDownStep(key) == last'.op = "onKeyDown" /\ last'.arg = key /\ last' # last

\* the instance is a new one of the script the key is bound to
FreshInstance(inst, key) ==
    /\ inst.id = scriptBindings[key]
    /\ inst.actions = scripts[scriptBindings[key]]
    /\ inst.nextActionIndex = 0

C31_KeyDownEffect ==
    [][ \A key \in {"KeyQ", "KeyS"} : KeyDownStep(key) =>
          IF Bound(scriptBindings, key) /\ scriptBindings[key] \in DOMAIN scripts
          THEN /\ Len(activeScripts') = Len(activeScripts) + 1
               /\ SubSeq(activeScripts', 1, Len(activeScripts)) = activeScripts
               /\ FreshInstance(activeScripts'[Len(activeScripts')], key)
               /\ activeScripts'[Len(activeScripts')].startTime = now'
               /\ ~raised'
               /\ UNCHANGED <<keyStates, channels, motorThrusts, scripts, scriptBindings>>
          ELSE /\ ~Bound(scriptBindings, key) =>
                    /\ keyStates' = Put(keyStates, key, TRUE)
                    /\ UNCHANGED <<activeScripts, channels, motorThrusts, scripts,
                                   scriptBindings>> ]_vars

\* the key was pressed while unbound, then bound, and pressed again while an
\* instance started by an earlier press, at another time, was running
C31_Witness ==
    /\ last.op = "onKeyDown" /\ last.arg = "KeyQ"
    /\ Pressed(keyStates, "KeyQ")
    /\ Bound(scriptBindings, "KeyQ")
    /\ Len(activeScripts) = 2
    /\ activeScripts[1].nextActionIndex >= 1
    /\ activeScripts[2].nextActionIndex = 0
    /\ activeScripts[2].startTime = now
    /\ activeScripts[1].startTime < now

-----------------------------------------------------------------------------
(* C33: an update with the gamepad connected in which no script action fires *)
(* leaves the four motor thrusts as they were and leaves every channel at    *)
(* the gamepad's axis value: neither the keyboard rate steps nor the         *)
(* centering step is applied, whatever keys are held.                        *)

\* the update of this step executed no script action
NoActionFired == Len(log') = Len(log)

C33_GamepadUpdateEffect ==
    [][ (UpdateStep /\ connected' /\ NoActionFired) =>
          /\ motorThrusts' = motorThrusts
          /\ \A c \in ChannelNames : channels'[c] = AxisValue(c, axes') ]_vars

\* a gamepad update with a control key held and the motors off their hover
\* value, where the keyboard path would have moved both a channel and a motor
C33_Witness ==
    /\ AfterUpdate /\ connected
    /\ \A c \in ChannelNames : WritesIn(c, nUpdates) = {}
    /\ \A m \in MotorNames : WritesIn(m, nUpdates) = {}
    /\ Pressed(keyStates, "KeyD")
    /\ motorThrusts.motor1 = 2 * One
    /\ LET k == updateKeyboardControls(channels, motorThrusts, keyStates)
       IN k.ch.roll # channels.roll /\ k.mt # motorThrusts

-----------------------------------------------------------------------------
(* C32: in each frame with a drone body the mapper makes either exactly one  *)
(* central thrust call and exactly one torque call (unified mode), or        *)
(* exactly four force-at-position calls, one per motor at that motor's       *)
(* position, with no central thrust call and no torque call (per-motor       *)
(* mode); the two sets of calls are never mixed within a frame.              *)

\* how many calls of op the frame made
CountCalls(op) == Cardinality({i \in CallIndexes : tick.calls[i].op = op})

\* the forces of the frame's calls of op, in the order of the calls
ForcesOf(op) == SelectSeq(tick.forces, LAMBDA f : f.op = op)

\* motor i's position in the world, for the transform the frame read back
MotorWorldPosition(i) ==
    LET at == applyQuaternion(motorPositions[i], tick.read[1].rotation)
    IN [k \in 1 .. 3 |-> at[k] + tick.read[1].origin[k]]

UnifiedCalls ==
    /\ CountCalls("applyCentralForce:thrust") = 1
    /\ CountCalls("applyTorque") = 1
    /\ CountCalls("applyForce") = 0
    /\ Len(ForcesOf("applyCentralForce:thrust")) = 1
    /\ Len(ForcesOf("applyTorque")) = 1
    /\ ForcesOf("applyForce") = << >>

PerMotorCalls ==
    /\ CountCalls("applyForce") = 4
    /\ CountCalls("applyCentralForce:thrust") = 0
    /\ CountCalls("applyTorque") = 0
    /\ Len(ForcesOf("applyForce")) = 4
    /\ \A i \in 1 .. 4 : ForcesOf("applyForce")[i].finite =>
                               ForcesOf("applyForce")[i].at = MotorWorldPosition(i)
    /\ ForcesOf("applyCentralForce:thrust") = << >>
    /\ ForcesOf("applyTorque") = << >>

-----------------------------------------------------------------------------
(* C34: the drag force is applied as a central force only when the body's    *)
(* speed is greater than 0; it points opposite to the linear velocity and    *)
(* its magnitude is 0.5 * airDensity * dragCoefficient * frontalArea *       *)
(* speed^2; at speed 0 no drag call is made.                                 *)

\* the linear velocity the frame read from the drone body after the step
VelocityRead == tick.read[1].lin
VelocityKinds == tick.read[1].linKinds

\* 0.5 * airDensity * dragCoefficient * frontalArea * speed^2, in units of
\* 1 / DragUnit newton
StatedMagnitude(speed) ==
    (airDensity.num * dragCoefficient.num * frontalArea.num * speed * speed)
        * (DragUnit \div (2 * airDensity.den * dragCoefficient.den * frontalArea.den))

\* vec is the vector of length magnitude opposite to velocity: vec times the
\* speed is the velocity times minus the magnitude
OppositeWithMagnitude(vec, velocity, magnitude) ==
    /\ \A i \in 1 .. 3 : vec[i] * Length(velocity) = (-velocity[i]) * magnitude
    /\ Dot(vec, velocity) < 0
    /\ Cross(vec, velocity) = <<0, 0, 0>>

C34_Drag ==
    (tick.n >= 1 /\ ModeOfTick # "none") =>
        /\ CountCalls("applyCentralForce:drag") = Len(ForcesOf("applyCentralForce:drag"))
        /\ CountCalls("applyCentralForce:drag")
              = IF lengthExceeds(VelocityRead, VelocityKinds, 0) THEN 1 ELSE 0
        /\ (lengthKind(VelocityKinds) = "finite" /\ Length(VelocityRead) = 0) =>
              ~Called("applyCentralForce:drag")
        /\ (lengthKind(VelocityKinds) = "finite" /\ Length(VelocityRead) > 0) =>
              LET drag == ForcesOf("applyCentralForce:drag")[1]
              IN /\ drag.finite
                 /\ drag.at = <<0, 0, 0>>
                 /\ OppositeWithMagnitude(drag.vec, VelocityRead,
                                          StatedMagnitude(Length(VelocityRead)))

\* a frame that read a velocity of 80 m/s, above the limit of 50, and
\* applied a drag of 2303 * 6400 / 32000 = 460.6 N against it
C34_Witness ==
    /\ tick.n >= 1 /\ ModeOfTick # "none"
    /\ VelocityRead = <<48, 64, 0>>
    /\ lengthKind(VelocityKinds) = "finite"
    /\ CountCalls("applyCentralForce:drag") = 1
    /\ ForcesOf("applyCentralForce:drag")[1].vec = <<-8843520, -11791360, 0>>
    /\ DragUnit = 32000

-----------------------------------------------------------------------------
(* C35: the drone rigid body is created at most once. While the scene has no *)
(* drone mesh createDronePhysics only sets its timer again (one pending      *)
(* retry at a time) and changes nothing else; once the mesh exists the body  *)
(* is created and no further retry is scheduled. So the list of tracked      *)
(* bodies never holds more than one entry, and the drone body is eventually  *)
(* created if the mesh eventually appears.                                   *)

\* what the timer's call of createDronePhysics makes of this state
AfterRetry == createDronePhysics(physicsEngine, [world EXCEPT !.retryPending = @ - 1])

\* at most one body, at most one timer, after init either the body or the
\* timer that will make it, and a timer that finds no mesh leaves the engine
\* as it is and one timer pending
OneBodyOneTimer ==
    /\ Len(physicsEngine.rigidBodies) <= 1
    /\ world.retryPending <= 1
    /\ physicsEngine.droneRigidBody <=> Len(physicsEngine.rigidBodies) = 1
    /\ physicsEngine.droneRigidBody => world.retryPending = 0
    /\ physicsEngine.physicsWorld =>
          (physicsEngine.droneRigidBody \/ world.retryPending = 1)
    /\ ~physicsEngine.physicsWorld => world.retryPending = 0
    /\ (world.retryPending > 0 /\ ~world.drone) =>
          /\ AfterRetry.pe = physicsEngine
          /\ AfterRetry.world = world
    /\ (world.retryPending > 0 /\ world.drone) =>
          /\ AfterRetry.pe.droneRigidBody
          /\ Len(AfterRetry.pe.rigidBodies) = 1
          /\ AfterRetry.world.retryPending = 0

\* the body is made in a step that finds the mesh and leaves no timer, and
\* it stays
BodyMadeOnce ==
    /\ physicsEngine.droneRigidBody => physicsEngine'.droneRigidBody
    /\ Len(physicsEngine'.rigidBodies) >= Len(physicsEngine.rigidBodies)
    /\ (physicsEngine'.droneRigidBody /\ ~physicsEngine.droneRigidBody) =>
          /\ world'.drone
          /\ world'.retryPending = 0
          /\ world.retryPending = 1 \/ ~physicsEngine.physicsWorld
    /\ (physicsEngine'.physicsWorld /\ ~world'.drone) => ~physicsEngine'.droneRigidBody

C35_BodyCreatedOnce ==
    /\ []OneBodyOneTimer
    /\ [][BodyMadeOnce]_vars
    /\ (physicsEngine.physicsWorld /\ world.drone) ~> physicsEngine.droneRigidBody

\* the body made by the timer: a frame ran without a body while init had
\* found no mesh, the mesh loaded afterwards, and the timer's call made the
\* one body
C35_Witness ==
    /\ physicsEngine.droneRigidBody
    /\ Len(physicsEngine.rigidBodies) = 1
    /\ world.retryPending = 0
    /\ tick.n >= 1 /\ tick.tracked = 0
    /\ ~Called("getControlInputs")

====
